---- MODULE Spec2Model ----
(***************************************************************************)
(* Model of the agent-event-to-client-stream bridge of RonBrowser:         *)
(*   - AISDKCallbackHandler (src/agent/aisdk_stream.py), the translator    *)
(*     from Strands callback events to AI SDK v5 UIMessageStream frames;   *)
(*   - superagent_stream (src/agent/api/main.py), the orchestrator that    *)
(*     runs the blocking agent call on a worker thread and drains the      *)
(*     per-request asyncio.Queue;                                          *)
(*   - get_or_create_superagent (src/agent/superagent.py), the permanent   *)
(*     agent singleton that holds the callback handler;                    *)
(*   - chat_stream and ConversationMemory.add_message (main.py), the only  *)
(*     writers of the messages table;                                      *)
(*   - load_mcp_server / unload_mcp_server (src/agent/superagent.py);      *)
(*   - HalfDuplexGate / HalfDuplexAudioInput of the voice onboarding agent *)
(*     (src/agents/voice_onboarding/agent.py);                             *)
(*   - ConversationMemory of ron_dspy                                      *)
(*     (src/agents/Ron/ron_dspy/memory/conversation.py);                   *)
(*   - the Docker server's /chat and /chat/stream with its per-session     *)
(*     agents and StreamCallbackHandler (src/agent/docker/server.py);      *)
(*   - ReasoningA2AExecutor._handle_streaming_event                        *)
(*     (src/agent/docker/sandbox_agent.py);                                *)
(*   - AISDKStreamBuilder and strands_event_to_aisdk                       *)
(*     (src/agents/Ron/streaming/protocol.py).                             *)
(*                                                                         *)
(* Spec           feeds one handler an arbitrary sequence of well-formed   *)
(*                callback events.                                         *)
(* ScenarioSpec   feeds one handler the events of the documented scenarios *)
(*                and every kind of result event.                          *)
(* EdgeSpec       feeds one handler malformed and unencodable events too,  *)
(*                and records the exceptions the calls raise.              *)
(* StreamSpec     runs /superagent/stream requests: worker threads, queues *)
(*                and the generate() loops, under every interleaving.      *)
(* LiveSpec       is StreamSpec's system with a fairly scheduled event     *)
(*                loop.                                                    *)
(* DisconnectSpec is StreamSpec's system with clients that disconnect.     *)
(* PersistSpec    is StreamSpec's system together with /chat/stream and    *)
(*                the messages table.                                      *)
(* McpSpec        calls load_mcp_server and unload_mcp_server in every     *)
(*                order.                                                   *)
(* VoiceSpec      interleaves output events, microphone reads and time at  *)
(*                the half-duplex gate.                                    *)
(* MemSpec        adds messages to a ConversationMemory of every window    *)
(*                size.                                                    *)
(* InputSpec      feeds one handler a tool call whose input arrives in     *)
(*                pieces.                                                  *)
(* DockerSpec     runs /chat and /chat/stream requests of the Docker       *)
(*                server under every interleaving.                         *)
(* EquivSpec      feeds a handler and an A2A executor the same events.     *)
(* BuilderSpec    feeds one AISDKStreamBuilder a sequence of events.       *)
(***************************************************************************)
EXTENDS Integers, Sequences, FiniteSets, TLC

\* ------------------------------------------------------------------------
\* Bounds
\* ------------------------------------------------------------------------

\* Number of callback events fed to the handler in Spec.
MaxEvents == 4

\* Number of /superagent/stream requests in StreamSpec.
NumRequests == 2

\* Number of callback events the agent runtime sends, over all requests, in
\* StreamSpec (the final result event of each run is not counted).
MaxStreamEvents == 1

\* Number of callback events fed to the handler in EdgeSpec.
MaxEdgeEvents == 3

\* Number of /superagent/stream requests in LiveSpec.
NumLiveRequests == 1

\* ------------------------------------------------------------------------
\* Frames (AISDKStreamEmitter)
\* ------------------------------------------------------------------------

\* Python None for a block id; it is falsy, like the empty string.
NoId == ""

\* The payload of a tool-output-available frame: `output`.
\* single = TRUE when the output is one content item, FALSE when it is a list.
NoOut == [single |-> FALSE, items |-> <<>>]

\* One SSE frame.  Every frame is kept as its decoded JSON object; `done` is
\* the literal terminator 'data: [DONE]'.  Fields a frame type does not carry
\* hold their empty value.
Frame(type, id, tool, name, val, out) ==
    [type |-> type, id |-> id, tool |-> tool, name |-> name, val |-> val, out |-> out]

emit_start == Frame("start", NoId, "", "", "", NoOut)

emit_start_step == Frame("start-step", NoId, "", "", "", NoOut)

emit_text_start(text_id) == Frame("text-start", text_id, "", "", "", NoOut)

emit_text_delta(text_id, delta) == Frame("text-delta", text_id, "", "", delta, NoOut)

emit_text_end(text_id) == Frame("text-end", text_id, "", "", "", NoOut)

emit_reasoning_start(reasoning_id) == Frame("reasoning-start", reasoning_id, "", "", "", NoOut)

emit_reasoning_delta(reasoning_id, delta) ==
    Frame("reasoning-delta", reasoning_id, "", "", delta, NoOut)

emit_reasoning_end(reasoning_id) == Frame("reasoning-end", reasoning_id, "", "", "", NoOut)

emit_tool_input_start(tool_call_id, tool_name) ==
    Frame("tool-input-start", NoId, tool_call_id, tool_name, "", NoOut)

emit_tool_input_available(tool_call_id, tool_name, input_data) ==
    Frame("tool-input-available", NoId, tool_call_id, tool_name, input_data, NoOut)

emit_tool_output_available(tool_call_id, output) ==
    Frame("tool-output-available", NoId, tool_call_id, "", "", output)

emit_tool_output_error(tool_call_id, error_text) ==
    Frame("tool-output-error", NoId, tool_call_id, "", error_text, NoOut)

emit_finish_step == Frame("finish-step", NoId, "", "", "", NoOut)

emit_finish(finish_reason) == Frame("finish", NoId, "", "", finish_reason, NoOut)

emit_done == Frame("done", NoId, "", "", "", NoOut)

emit_error(error_text) == Frame("error", NoId, "", "", error_text, NoOut)

\* ------------------------------------------------------------------------
\* Callback events (the **kwargs of AISDKCallbackHandler.__call__)
\* ------------------------------------------------------------------------

\* A key that is absent from a mapping (dict.get then returns its default).
Absent == "<absent>"

\* kwargs.get("current_tool_use"): has = the key holds a truthy value;
\* mapping = that value is a dict; encodable = json.dumps accepts the input.
NoToolUse ==
    [has |-> FALSE, mapping |-> TRUE, toolUseId |-> Absent, name |-> "", input |-> Absent,
     isStr |-> FALSE, encodable |-> TRUE]

\* kwargs.get("tool_stream_event"); toolUseId is that of its tool_use mapping.
\* mapping = the value and its tool_use are dicts; data is the object under
\* "data", kept as a list of items.
NoToolStream == [has |-> FALSE, mapping |-> TRUE, toolUseId |-> Absent, data |-> <<>>]

\* kwargs.get("tool_result"): mapping = the value is a dict; content is the
\* list under "content" (empty when the key is missing); contentNull = the
\* key holds None.
NoToolResult ==
    [has |-> FALSE, mapping |-> TRUE, toolUseId |-> Absent, status |-> Absent,
     content |-> <<>>, contentNull |-> FALSE]

\* kwargs.get("result"): has = an AgentResult was passed; stop_reason = Absent
\* when the object has no such attribute.
NoResult == [has |-> FALSE, stop_reason |-> Absent]

\* The event with no recognised key.
NoEvent ==
    [init_event_loop |-> FALSE, start_event_loop |-> FALSE,
     reasoningText |-> "", reasoning |-> FALSE, data |-> "",
     current_tool_use |-> NoToolUse, tool_stream_event |-> NoToolStream,
     tool_result |-> NoToolResult, complete |-> FALSE, result |-> NoResult]

\* One item of a tool result's content list.  mapping = the item is a dict;
\* encodable = json.dumps accepts it.
\* {"text": t}
TextItem(t) == [hasText |-> TRUE, text |-> t, mapping |-> TRUE, encodable |-> TRUE]

\* A dict without a text key, such as {"json": {...}}.
OtherItem == [hasText |-> FALSE, text |-> "", mapping |-> TRUE, encodable |-> TRUE]

\* An item that is a bare string instead of a dict.
StrItem(t) == [hasText |-> FALSE, text |-> t, mapping |-> FALSE, encodable |-> TRUE]

\* A dict that holds raw bytes, such as {"image": {"source": {"bytes": b"..."}}}.
BytesItem == [hasText |-> FALSE, text |-> "", mapping |-> TRUE, encodable |-> FALSE]

EvInit == [NoEvent EXCEPT !.init_event_loop = TRUE]

EvStartLoop == [NoEvent EXCEPT !.start_event_loop = TRUE]

EvReasoning(t) == [NoEvent EXCEPT !.reasoningText = t, !.reasoning = TRUE]

EvData(t) == [NoEvent EXCEPT !.data = t]

\* input is a dict (isStr = FALSE) or the JSON string Strands accumulates.
EvToolUse(id, name, input, isStr) ==
    [NoEvent EXCEPT !.current_tool_use =
        [has |-> TRUE, mapping |-> TRUE, toolUseId |-> id, name |-> name, input |-> input,
         isStr |-> isStr, encodable |-> TRUE]]

EvToolStream(id, data) ==
    [NoEvent EXCEPT !.tool_stream_event =
        [has |-> TRUE, mapping |-> TRUE, toolUseId |-> id, data |-> data]]

EvToolResult(id, status, content) ==
    [NoEvent EXCEPT !.tool_result =
        [has |-> TRUE, mapping |-> TRUE, toolUseId |-> id, status |-> status,
         content |-> content, contentNull |-> FALSE]]

EvComplete == [NoEvent EXCEPT !.complete = TRUE]

EvResult(stop_reason) == [NoEvent EXCEPT !.result = [has |-> TRUE, stop_reason |-> stop_reason]]

\* The events fed to the handler in Spec.
Events ==
    { EvInit, EvStartLoop,
      EvReasoning("thinking"),
      EvData("Hi"),
      EvToolUse("t1", "x", "{}", FALSE),
      EvToolUse("t1", "x", "{\"a\"", TRUE),
      EvToolStream("t1", <<TextItem("chunk")>>),
      EvToolResult("t1", "success", <<TextItem("ok")>>),
      EvToolResult("t1", "error", <<TextItem("boom")>>),
      EvToolResult("t2", "success", <<>>),
      EvComplete,
      EvResult("max_tokens"),
      [EvData("Hi") EXCEPT !.complete = TRUE],
      NoEvent }

\* The stop_reason values of the AgentResult of a result event: the four
\* keys of reason_map, a value that is no key, and an object without the
\* attribute.
ResultStopReasons ==
    {"end_turn", "stop_sequence", "max_tokens", "tool_use", "content_filtered", Absent}

\* The events fed to the handler in ScenarioSpec: those of the scenarios of
\* a text answer and of a failing tool call, and every kind of result event.
ScenarioEvents ==
    { EvInit,
      EvData("Hi"),
      EvData(" there"),
      EvComplete,
      EvToolUse("t1", "x", "{}", FALSE),
      EvToolResult("t1", "error", <<TextItem("boom")>>) }
    \cup { EvResult(sr) : sr \in ResultStopReasons }

\* A current_tool_use whose input dict holds a value json.dumps rejects.
EvToolUseBytes(id, name) ==
    [NoEvent EXCEPT !.current_tool_use =
        [has |-> TRUE, mapping |-> TRUE, toolUseId |-> id, name |-> name,
         input |-> "{\"a\": <bytes>}", isStr |-> FALSE, encodable |-> FALSE]]

\* The events fed to the handler in EdgeSpec: well-formed events, events
\* whose recognised key holds a value of another type than documented, and
\* events whose payload json.dumps rejects.
EdgeEvents ==
    { NoEvent,
      EvData("Hi"),
      EvComplete,
      EvToolUse("t1", "x", "{}", FALSE),
      EvToolUseBytes("t1", "x"),
      [NoEvent EXCEPT !.current_tool_use.has = TRUE, !.current_tool_use.mapping = FALSE],
      EvToolStream("t1", <<BytesItem>>),
      [NoEvent EXCEPT !.tool_stream_event.has = TRUE, !.tool_stream_event.mapping = FALSE],
      EvToolResult("t1", "success", <<TextItem("ok")>>),
      EvToolResult("t2", "error", <<TextItem("boom")>>),
      EvToolResult("t2", "error", <<StrItem("boom")>>),
      EvToolResult("t2", "success", <<BytesItem>>),
      [EvToolResult("t2", "success", <<>>) EXCEPT !.tool_result.contentNull = TRUE],
      [EvToolResult("t2", "error", <<>>) EXCEPT !.tool_result.contentNull = TRUE],
      [NoEvent EXCEPT !.tool_result.has = TRUE, !.tool_result.mapping = FALSE] }

\* ------------------------------------------------------------------------
\* AISDKCallbackHandler
\* ------------------------------------------------------------------------

\* The state of a handler after __init__.  ids counts the ids drawn from
\* _new_id so far: uuid4 ids are modelled as never repeating.
InitHandler ==
    [started |-> FALSE, in_step |-> FALSE, in_reasoning |-> FALSE, in_text |-> FALSE,
     reasoning_id |-> NoId, text_id |-> NoId, pending_tool_ids |-> {}, ids |-> 0]

\* A handler call in progress: the handler state and the frames passed to
\* self.emit so far, in order.
Ctx(st, out) == [st |-> st, out |-> out]

Emit(c, f) == Ctx(c.st, Append(c.out, f))

\* _new_id(prefix): the id the next draw returns.
NewId(st, prefix) == prefix \o ToString(st.ids + 1)

Drawn(c) == Ctx([c.st EXCEPT !.ids = @ + 1], c.out)

\* _close_reasoning that forgets the open block: no reasoning-end is emitted.
_close_reasoning_skip(c) == c

_close_reasoning(c) ==
    IF c.st.in_reasoning /\ c.st.reasoning_id # NoId
    THEN Ctx([c.st EXCEPT !.in_reasoning = FALSE, !.reasoning_id = NoId],
             Append(c.out, emit_reasoning_end(c.st.reasoning_id)))
    ELSE c

\* _close_text that emits text-end but leaves in_text and text_id set.
_close_text_noreset(c) ==
    IF c.st.in_text /\ c.st.text_id # NoId
    THEN Ctx(c.st, Append(c.out, emit_text_end(c.st.text_id)))
    ELSE c

_close_text(c) ==
    IF c.st.in_text /\ c.st.text_id # NoId
    THEN Ctx([c.st EXCEPT !.in_text = FALSE, !.text_id = NoId],
             Append(c.out, emit_text_end(c.st.text_id)))
    ELSE c

\* _ensure_started that emits start without recording it in `started`.
_ensure_started_nomark(c) ==
    LET c1 == IF ~c.st.started THEN Ctx(c.st, Append(c.out, emit_start)) ELSE c
    IN  IF ~c1.st.in_step
        THEN Ctx([c1.st EXCEPT !.in_step = TRUE], Append(c1.out, emit_start_step))
        ELSE c1

_ensure_started(c) ==
    LET c1 == IF ~c.st.started
              THEN Ctx([c.st EXCEPT !.started = TRUE], Append(c.out, emit_start))
              ELSE c
    IN  IF ~c1.st.in_step
        THEN Ctx([c1.st EXCEPT !.in_step = TRUE], Append(c1.out, emit_start_step))
        ELSE c1

\* json.loads(tool_input) for a string input: the model's strings that parse.
JsonValid(s) == s \in {"{}", "{\"a\": 1}"}

\* The tool input after lines 243-250: a dict is kept, a JSON string is
\* parsed, any other string becomes {"raw": <string>}.
ParseToolInput(tu) ==
    IF tu.input = Absent THEN "{}"
    ELSE IF tu.isStr
         THEN IF JsonValid(tu.input) THEN tu.input ELSE "{\"raw\": " \o tu.input \o "}"
         ELSE tu.input

\* The reasoning branch without the _close_text call.
OnReasoning_noclose(c, kw) ==
    LET c1 == _ensure_started(c)
        c2 == IF ~c1.st.in_reasoning
              THEN LET rid == NewId(c1.st, "r-")
                   IN  Ctx([c1.st EXCEPT !.ids = @ + 1, !.reasoning_id = rid,
                                         !.in_reasoning = TRUE],
                           Append(c1.out, emit_reasoning_start(rid)))
              ELSE c1
    IN  Emit(c2, emit_reasoning_delta(c2.st.reasoning_id, kw.reasoningText))

\* The reasoning branch, lines 206-218.
OnReasoning(c, kw) ==
    LET c1 == _close_text(_ensure_started(c))
        c2 == IF ~c1.st.in_reasoning
              THEN LET rid == NewId(c1.st, "r-")
                   IN  Ctx([c1.st EXCEPT !.ids = @ + 1, !.reasoning_id = rid,
                                         !.in_reasoning = TRUE],
                           Append(c1.out, emit_reasoning_start(rid)))
              ELSE c1
    IN  Emit(c2, emit_reasoning_delta(c2.st.reasoning_id, kw.reasoningText))

\* The text branch opening a new text block for every delta.
OnData_newblock(c, kw) ==
    LET c1 == _close_reasoning(_ensure_started(c))
        tid == NewId(c1.st, "t-")
        c2 == Ctx([c1.st EXCEPT !.ids = @ + 1, !.text_id = tid, !.in_text = TRUE],
                  Append(c1.out, emit_text_start(tid)))
    IN  Emit(c2, emit_text_delta(c2.st.text_id, kw.data))

\* The text branch, lines 220-232.
OnData(c, kw) ==
    LET c1 == _close_reasoning(_ensure_started(c))
        c2 == IF ~c1.st.in_text
              THEN LET tid == NewId(c1.st, "t-")
                   IN  Ctx([c1.st EXCEPT !.ids = @ + 1, !.text_id = tid, !.in_text = TRUE],
                           Append(c1.out, emit_text_start(tid)))
              ELSE c1
    IN  Emit(c2, emit_text_delta(c2.st.text_id, kw.data))

\* The tool use branch without the pending_tool_ids test.
OnToolUse_nodedup(c, kw) ==
    LET tu == kw.current_tool_use
        c1 == _close_text(_close_reasoning(_ensure_started(c)))
        gen == NewId(c1.st, "tool-")
        c2 == Drawn(c1)
        tool_id == IF tu.toolUseId = Absent THEN gen ELSE tu.toolUseId
        tool_input == ParseToolInput(tu)
    IN  Ctx([c2.st EXCEPT !.pending_tool_ids = @ \cup {tool_id}],
            c2.out \o << emit_tool_input_start(tool_id, tu.name),
                         emit_tool_input_available(tool_id, tu.name, tool_input) >>)

\* The tool use branch announcing the tool without its input.
OnToolUse_startonly(c, kw) ==
    LET tu == kw.current_tool_use
        c1 == _close_text(_close_reasoning(_ensure_started(c)))
        gen == NewId(c1.st, "tool-")
        c2 == Drawn(c1)
        tool_id == IF tu.toolUseId = Absent THEN gen ELSE tu.toolUseId
    IN  IF tool_id \notin c2.st.pending_tool_ids
        THEN Ctx([c2.st EXCEPT !.pending_tool_ids = @ \cup {tool_id}],
                 Append(c2.out, emit_tool_input_start(tool_id, tu.name)))
        ELSE c2

\* The tool use branch closing the open block after the tool frames.
OnToolUse_lateclose(c, kw) ==
    LET tu == kw.current_tool_use
        c1 == _ensure_started(c)
        gen == NewId(c1.st, "tool-")
        c2 == Drawn(c1)
        tool_id == IF tu.toolUseId = Absent THEN gen ELSE tu.toolUseId
        tool_input == ParseToolInput(tu)
        c3 == IF tool_id \notin c2.st.pending_tool_ids
              THEN Ctx([c2.st EXCEPT !.pending_tool_ids = @ \cup {tool_id}],
                       c2.out \o << emit_tool_input_start(tool_id, tu.name),
                                    emit_tool_input_available(tool_id, tu.name,
                                                              tool_input) >>)
              ELSE c2
    IN  _close_text(_close_reasoning(c3))

\* The tool use branch, lines 234-257.  The default of dict.get is evaluated
\* on every call, so _new_id is drawn whether or not toolUseId is present.
OnToolUse(c, kw) ==
    LET tu == kw.current_tool_use
        c1 == _close_text(_close_reasoning(_ensure_started(c)))
        gen == NewId(c1.st, "tool-")
        c2 == Drawn(c1)
        tool_id == IF tu.toolUseId = Absent THEN gen ELSE tu.toolUseId
        tool_input == ParseToolInput(tu)
    IN  IF tool_id \notin c2.st.pending_tool_ids
        THEN Ctx([c2.st EXCEPT !.pending_tool_ids = @ \cup {tool_id}],
                 c2.out \o << emit_tool_input_start(tool_id, tu.name),
                              emit_tool_input_available(tool_id, tu.name, tool_input) >>)
        ELSE c2

\* The tool stream branch, lines 259-268.
OnToolStream(c, kw) ==
    LET ts == kw.tool_stream_event
        tool_id == IF ts.toolUseId = Absent THEN "unknown" ELSE ts.toolUseId
    IN  Ctx([c.st EXCEPT !.pending_tool_ids = @ \ {tool_id}],
            Append(c.out, emit_tool_output_available(tool_id,
                                [single |-> TRUE, items |-> ts.data])))

\* The tool result branch reporting every result as tool-output-available.
OnToolResult_noerror(c, kw) ==
    LET tr == kw.tool_result
        tool_id == IF tr.toolUseId = Absent THEN "unknown" ELSE tr.toolUseId
        content == tr.content
    IN  Ctx([c.st EXCEPT !.pending_tool_ids = @ \ {tool_id}],
            Append(c.out, emit_tool_output_available(tool_id,
                                [single |-> Len(content) = 1, items |-> content])))

\* The tool result branch, lines 270-285.
OnToolResult(c, kw) ==
    LET tr == kw.tool_result
        tool_id == IF tr.toolUseId = Absent THEN "unknown" ELSE tr.toolUseId
        status == IF tr.status = Absent THEN "success" ELSE tr.status
        content == tr.content
        f == IF status = "error"
             THEN emit_tool_output_error(tool_id,
                      IF content # <<>>
                      THEN IF content[1].hasText THEN content[1].text
                           ELSE "Tool execution failed"
                      ELSE "Tool execution failed")
             ELSE emit_tool_output_available(tool_id,
                      [single |-> Len(content) = 1, items |-> content])
    IN  Ctx([c.st EXCEPT !.pending_tool_ids = @ \ {tool_id}], Append(c.out, f))

\* The closing steps emitting finish-step whether or not a step is open.
CloseAll_always(c) ==
    LET c1 == _close_text(_close_reasoning(c))
    IN  Ctx([c1.st EXCEPT !.in_step = FALSE], Append(c1.out, emit_finish_step))

\* Lines 289-294, shared by the complete and result branches.
CloseAll(c) ==
    LET c1 == _close_text(_close_reasoning(c))
    IN  IF c1.st.in_step
        THEN Ctx([c1.st EXCEPT !.in_step = FALSE], Append(c1.out, emit_finish_step))
        ELSE c1

\* The complete branch, lines 287-298.
OnComplete(c) ==
    LET c1 == CloseAll(c)
    IN  Ctx(c1.st, c1.out \o << emit_finish("stop"), emit_done >>)

\* The stop reason passed on as it came, without reason_map.
FinishReason_raw(res) == IF res.stop_reason = Absent THEN "stop" ELSE res.stop_reason

\* reason_map.get(raw_reason, 'stop'), lines 312-319.
FinishReason(res) ==
    LET raw_reason == IF res.stop_reason = Absent THEN "stop" ELSE res.stop_reason
    IN  CASE raw_reason = "end_turn" -> "stop"
          [] raw_reason = "stop_sequence" -> "stop"
          [] raw_reason = "max_tokens" -> "length"
          [] raw_reason = "tool_use" -> "tool-calls"
          [] OTHER -> "stop"

\* The result branch, lines 300-322.
OnResult(c, kw) ==
    LET c1 == CloseAll(c)
    IN  Ctx(c1.st, c1.out \o << emit_finish(FinishReason(kw.result)), emit_done >>)

\* AISDKCallbackHandler.__call__: the state after the call and the frames it
\* emitted, for handler state st and event kw.
Call(st, kw) ==
    LET c == Ctx(st, <<>>)
    IN  IF kw.init_event_loop THEN _ensure_started(c)
        ELSE IF kw.start_event_loop THEN _ensure_started(c)
        ELSE IF kw.reasoningText # "" /\ kw.reasoning THEN OnReasoning(c, kw)
        ELSE IF kw.data # "" THEN OnData(c, kw)
        ELSE IF kw.current_tool_use.has /\ kw.current_tool_use.name # "" THEN OnToolUse(c, kw)
        ELSE IF kw.tool_stream_event.has THEN OnToolStream(c, kw)
        ELSE IF kw.tool_result.has THEN OnToolResult(c, kw)
        ELSE IF kw.complete THEN OnComplete(c)
        ELSE IF kw.result.has THEN OnResult(c, kw)
        ELSE c

\* ------------------------------------------------------------------------
\* AISDKCallbackHandler: the exceptions a call can raise
\* ------------------------------------------------------------------------

\* The outcome of a call: the handler state it leaves, the frames it passed
\* to self.emit, and whether it ended by raising to its caller.
Returned(c) == [st |-> c.st, out |-> c.out, raised |-> FALSE]

Raised(c) == [st |-> c.st, out |-> c.out, raised |-> TRUE]

\* json.dumps accepts a list of items.
Encodable(items) == \A k \in 1..Len(items) : items[k].encodable

\* The tool use branch, lines 234-257, for a dict: emit_tool_input_available
\* (line 255) raises TypeError when json.dumps rejects the input, after
\* tool-input-start was emitted and before the id is added to
\* pending_tool_ids.
ToolUseOutcome(c, kw) ==
    LET tu == kw.current_tool_use
        c1 == _close_text(_close_reasoning(_ensure_started(c)))
        gen == NewId(c1.st, "tool-")
        c2 == Drawn(c1)
        tool_id == IF tu.toolUseId = Absent THEN gen ELSE tu.toolUseId
    IN  IF tool_id \notin c2.st.pending_tool_ids /\ ~tu.encodable
        THEN Raised(Emit(c2, emit_tool_input_start(tool_id, tu.name)))
        ELSE Returned(OnToolUse(c, kw))

\* The tool stream branch, lines 259-268: .get on a value that is not a dict
\* raises AttributeError (lines 262-264), json.dumps of the data raises
\* TypeError (line 266); both before anything is emitted or discarded.
ToolStreamOutcome(c, kw) ==
    LET ts == kw.tool_stream_event
    IN  IF ~ts.mapping \/ ~Encodable(ts.data)
        THEN Raised(c)
        ELSE Returned(OnToolStream(c, kw))

\* The tool result branch, lines 270-285, raises before it emits anything:
\* .get on a tool_result that is not a dict (line 273), .get on a first
\* content item that is not a dict (line 278), len(None) (line 281), or
\* json.dumps of an output it rejects (line 282).
ToolResultRaises(tr) ==
    LET status == IF tr.status = Absent THEN "success" ELSE tr.status
    IN  \/ ~tr.mapping
        \/ /\ status = "error"
           /\ ~tr.contentNull
           /\ tr.content # <<>>
           /\ ~tr.content[1].mapping
        \/ /\ status # "error"
           /\ tr.contentNull \/ ~Encodable(tr.content)

ToolResultOutcome(c, kw) ==
    IF ToolResultRaises(kw.tool_result) THEN Raised(c) ELSE Returned(OnToolResult(c, kw))

\* AISDKCallbackHandler.__call__ for any event, well-formed or not: the
\* branches are tried in the order of Call; a branch that raises is left at
\* the raising line, with the state and frames of the lines before it.
__call__(st, kw) ==
    LET c == Ctx(st, <<>>)
    IN  IF kw.init_event_loop THEN Returned(Call(st, kw))
        ELSE IF kw.start_event_loop THEN Returned(Call(st, kw))
        ELSE IF kw.reasoningText # "" /\ kw.reasoning THEN Returned(Call(st, kw))
        ELSE IF kw.data # "" THEN Returned(Call(st, kw))
        ELSE IF kw.current_tool_use.has /\ ~kw.current_tool_use.mapping THEN Raised(c)
        ELSE IF kw.current_tool_use.has /\ kw.current_tool_use.name # ""
             THEN ToolUseOutcome(c, kw)
        ELSE IF kw.tool_stream_event.has THEN ToolStreamOutcome(c, kw)
        ELSE IF kw.tool_result.has THEN ToolResultOutcome(c, kw)
        ELSE Returned(Call(st, kw))

\* ------------------------------------------------------------------------
\* superagent_stream: requests, worker threads and queues
\* ------------------------------------------------------------------------

\* The /superagent/stream requests, numbered in arrival order.
Requests == 1..NumRequests

\* _SUPER_AGENT is None.
NoAgent == 0

\* The stop reasons of the AgentResult passed with the final result event.
StopReasons == {"end_turn"}

\* The events the agent runtime sends to its callback handler during a run,
\* before the final result event.
WorkerEvents ==
    { EvReasoning("thinking"), EvData("Hi") }

\* get_or_create_superagent: the permanent agent is built on the first call
\* only, with that call's callback_handler; later calls return it as it is.
\* The agent is represented by the request whose handler it holds.
get_or_create_superagent(agent, r) == IF agent = NoAgent THEN r ELSE agent

\* asyncio.Queue.put_nowait
put_nowait(q, item) == Append(q, item)

\* Every frame of one handler call, put in emission order.
RECURSIVE PutAll(_, _)
PutAll(q, fs) == IF fs = <<>> THEN q ELSE PutAll(put_nowait(q, Head(fs)), Tail(fs))

\* The get of a LifoQueue: the newest item first.
QueueGet_lifo(q) == [item |-> q[Len(q)], rest |-> SubSeq(q, 1, Len(q) - 1)]

\* asyncio.Queue.get / get_nowait on a non-empty queue: the item returned and
\* the queue left.
QueueGet(q) == [item |-> Head(q), rest |-> Tail(q)]

VARIABLES
    handler,     \* Spec: the AISDKCallbackHandler's fields
    log,         \* Spec: per event fed so far, the event and the frames it emitted
    super_agent, \* _SUPER_AGENT: NoAgent, or the request whose handler it calls
    handlers,    \* per request: the fields of the handler created for it
    orch,        \* per request: where superagent_stream / generate() stands
    worker,      \* per request: the executor thread running agent(message)
    task_done,   \* per request: task.done() as the event loop sees it
    queue,       \* per request: the asyncio.Queue's content
    enqueued,    \* per request: every frame ever put on its queue
    delivered,   \* per request: the frames generate() has yielded
    produced,    \* per request: the frames the callback emitted during its run
    sent,        \* callback events sent by the agent runtime so far
    closed_at,   \* per request: Len(produced) when its client disconnected
    messages_table, \* ConversationMemory.messages_table: the rows added so far
    chat,        \* /chat/stream: where chat_stream / its generate() stands
    registry,    \* _current_agent.tool_registry.registry: the names it holds
    mcp_clients, \* _mcp_clients: per loaded server id, its "tool_names"
    mcp_calls,   \* the load/unload calls made so far, with the state around each
    gate,        \* HalfDuplexGate: _assistant_busy and _resume_mic_at_s
    mic,         \* HalfDuplexAudioInput: where the read in flight stands
    clock,       \* loop.time() of the voice agent's event loop, in ticks
    conversation,\* ron_dspy ConversationMemory: window_size and messages
    added,       \* every message passed to ConversationMemory.add, in order
    agents,      \* docker/server.py `agents`: per session id, the agent kept
    docker_req,  \* docker server, per request: endpoint, session, agent, progress
    callbacks,   \* per request: its StreamCallbackHandler's queue and in_reasoning
    docker_hist, \* per request: events of its run, events and items of its callback
    executor,    \* ReasoningA2AExecutor: _text_id, _reasoning_id, _pending_tools
    updates,     \* the frames the executor passed to updater.update_status
    builder,     \* AISDKStreamBuilder: _text_started, _reasoning_started, _tool_calls
    yielded      \* per event fed to strands_event_to_aisdk, the frames it yielded

handlerVars == <<handler, log>>

streamVars == <<super_agent, handlers, orch, worker, task_done, queue, enqueued,
                delivered, produced, sent, closed_at>>

persistVars == <<messages_table, chat>>

\* The state of the components beside the translator and /superagent/stream.
mcpVars == <<registry, mcp_clients, mcp_calls>>

voiceVars == <<gate, mic, clock>>

memVars == <<conversation, added>>

dockerVars == <<agents, docker_req, callbacks, docker_hist>>

a2aVars == <<executor, updates>>

builderVars == <<builder, yielded>>

\* The state of the Docker server and of the two other translators.
peerVars == <<dockerVars, a2aVars, builderVars>>

extVars == <<persistVars, mcpVars, voiceVars, memVars, peerVars>>

vars == <<handler, log, super_agent, handlers, orch, worker, task_done, queue,
          enqueued, delivered, produced, sent, closed_at, extVars>>

StreamInit ==
    /\ super_agent = NoAgent
    /\ handlers = [r \in Requests |-> InitHandler]
    /\ orch = [r \in Requests |-> "idle"]
    /\ worker = [r \in Requests |-> "none"]
    /\ task_done = [r \in Requests |-> FALSE]
    /\ queue = [r \in Requests |-> <<>>]
    /\ enqueued = [r \in Requests |-> <<>>]
    /\ delivered = [r \in Requests |-> <<>>]
    /\ produced = [r \in Requests |-> <<>>]
    /\ sent = 0
    /\ closed_at = [r \in Requests |-> 0]

\* main.py at import: an empty messages table, no /chat/stream request yet.
PersistInit ==
    /\ messages_table = <<>>
    /\ chat = [state |-> "idle", full_response |-> "", chunks |-> 0]

\* No MCP server loaded: an empty dict.
NoClients == [s \in {} |-> {}]

\* The names of the tools the agent is constructed with.
BaseTools == {"shell", "load_mcp_server", "unload_mcp_server"}

\* The registry after get_or_create_superagent: the first call builds the
\* Agent, whose registry then holds its tools; later calls build nothing.
AgentTools(agent, reg) == IF agent = NoAgent THEN BaseTools ELSE reg

\* superagent.py at import: no agent, hence no registry yet, and no client.
McpInit ==
    /\ registry = {}
    /\ mcp_clients = NoClients
    /\ mcp_calls = <<>>

\* No HalfDuplexGate / ConversationMemory object constructed yet.
NoGate == [made |-> FALSE]
NoMemory == [made |-> FALSE]

VoiceInit ==
    /\ gate = NoGate
    /\ mic = [pc |-> "none", wake_at |-> 0, reads |-> <<>>]
    /\ clock = 0

MemInit ==
    /\ conversation = NoMemory
    /\ added = <<>>

\* The /chat and /chat/stream requests the Docker server receives, numbered
\* in arrival order, and the session ids they carry.
NumDockerRequests == 2

DockerRequests == 1..NumDockerRequests

DockerSessions == {"s1", "s2"}

\* The callback_handler of an agent built without one: superagent.py's
\* CallbackHandler, whose __call__ does nothing.
PassCallback == 0

\* `session_id not in agents`.  An agent is represented by the request whose
\* call built it and by the callback handler it was built with: PassCallback
\* or the request whose StreamCallbackHandler it is.
NoSessionAgent == [by |-> 0, callback |-> PassCallback]

\* A request that has not arrived.
NoDockerRequest ==
    [kind |-> "none", session |-> "", agent |-> NoSessionAgent, pc |-> "idle",
     woken |-> FALSE, worker |-> "none", task_done |-> FALSE]

\* StreamCallbackHandler.__init__
NewStreamCallback == [queue |-> <<>>, in_reasoning |-> FALSE]

\* docker/server.py at import: `agents = {}`, no request yet.
DockerInit ==
    /\ agents = [s \in DockerSessions |-> NoSessionAgent]
    /\ docker_req = [r \in DockerRequests |-> NoDockerRequest]
    /\ callbacks = [r \in DockerRequests |-> NewStreamCallback]
    /\ docker_hist = [r \in DockerRequests |->
                         [events |-> <<>>, received |-> <<>>, delivered |-> <<>>]]

\* ReasoningA2AExecutor.__init__; ids counts the ids drawn from _new_id.
InitExecutor ==
    [_text_id |-> NoId, _reasoning_id |-> NoId, _pending_tools |-> {}, ids |-> 0]

\* AISDKStreamBuilder after construction; _tool_calls maps a tool call id to
\* the input accumulated for it.
InitBuilder ==
    [_text_started |-> FALSE, _reasoning_started |-> FALSE,
     _tool_calls |-> [t \in {} |-> ""]]

PeerInit ==
    /\ DockerInit
    /\ executor = InitExecutor
    /\ updates = <<>>
    /\ builder = InitBuilder
    /\ yielded = <<>>

ExtInit ==
    /\ PersistInit
    /\ McpInit
    /\ VoiceInit
    /\ MemInit
    /\ PeerInit

Init ==
    /\ handler = InitHandler
    /\ log = <<>>
    /\ StreamInit
    /\ ExtInit

\* ------------------------------------------------------------------------
\* Spec: one handler fed a sequence of events
\* ------------------------------------------------------------------------

\* The caller invokes the handler with event kw.
Feed(kw) ==
    /\ Len(log) < MaxEvents
    /\ LET c == Call(handler, kw)
       IN  /\ handler' = c.st
           /\ log' = Append(log, [ev |-> kw, out |-> c.out])
    /\ UNCHANGED streamVars
    /\ UNCHANGED extVars

Next == \E kw \in Events : Feed(kw)

Spec == Init /\ [][Next]_vars

\* ------------------------------------------------------------------------
\* ScenarioSpec: one handler fed the events of the documented scenarios
\* ------------------------------------------------------------------------

ScenarioNext == \E kw \in ScenarioEvents : Feed(kw)

ScenarioSpec == Init /\ [][ScenarioNext]_vars

\* ------------------------------------------------------------------------
\* EdgeSpec: one handler fed malformed and unencodable events as well
\* ------------------------------------------------------------------------

\* The caller invokes the handler with event kw and catches what it raises:
\* the log keeps the handler state before and after the call, the frames
\* emitted and whether the call raised.
FeedEdge(kw) ==
    /\ Len(log) < MaxEdgeEvents
    /\ LET o == __call__(handler, kw)
       IN  /\ handler' = o.st
           /\ log' = Append(log, [ev |-> kw, out |-> o.out, raised |-> o.raised,
                                  pre |-> handler, post |-> o.st])
    /\ UNCHANGED streamVars
    /\ UNCHANGED extVars

EdgeNext == \E kw \in EdgeEvents : FeedEdge(kw)

EdgeSpec == Init /\ [][EdgeNext]_vars

\* ------------------------------------------------------------------------
\* StreamSpec: /superagent/stream under every interleaving
\* ------------------------------------------------------------------------

\* superagent_stream up to `return StreamingResponse(...)`: a new queue, a new
\* UICallbackHandler bound to it, and the agent from create_superagent.
Request(r) ==
    /\ orch[r] = "idle"
    /\ \A p \in Requests : p < r => orch[p] # "idle"
    /\ super_agent' = get_or_create_superagent(super_agent, r)
    /\ handlers' = [handlers EXCEPT ![r] = InitHandler]
    /\ queue' = [queue EXCEPT ![r] = <<>>]
    /\ orch' = [orch EXCEPT ![r] = "created"]
    /\ registry' = AgentTools(super_agent, registry)
    /\ UNCHANGED handlerVars
    /\ UNCHANGED <<persistVars, mcp_clients, mcp_calls, voiceVars, memVars, peerVars>>
    /\ UNCHANGED <<worker, task_done, enqueued, delivered, produced, sent,
                   closed_at>>

\* generate() starts: run_in_executor submits agent(message) to a thread.
StartGenerate(r) ==
    /\ orch[r] = "created"
    /\ orch' = [orch EXCEPT ![r] = "loop"]
    /\ worker' = [worker EXCEPT ![r] = "running"]
    /\ UNCHANGED handlerVars
    /\ UNCHANGED extVars
    /\ UNCHANGED <<super_agent, handlers, task_done, queue, enqueued, delivered,
                   produced, sent,
                   closed_at>>

\* The agent, running request r's call, invokes its callback handler: the
\* handler the singleton holds translates the event and its emit function
\* puts each frame on the queue it was bound to.  One call is one step: runs
\* that overlap on the singleton's handler interleave call by call.
Callback(r, kw) ==
    LET c == Call(handlers[super_agent], kw)
    IN  /\ handlers' = [handlers EXCEPT ![super_agent] = c.st]
        /\ queue' = [queue EXCEPT ![super_agent] = PutAll(@, c.out)]
        /\ enqueued' = [enqueued EXCEPT ![super_agent] = @ \o c.out]
        /\ produced' = [produced EXCEPT ![r] = @ \o c.out]

\* One callback event during the run.
WorkerEvent(r, kw) ==
    /\ worker[r] = "running"
    /\ sent < MaxStreamEvents
    /\ Callback(r, kw)
    /\ sent' = sent + 1
    /\ UNCHANGED handlerVars
    /\ UNCHANGED extVars
    /\ UNCHANGED <<super_agent, orch, worker, task_done, delivered,
                   closed_at>>

\* agent(message) returns: the runtime's last callback carries the result.
WorkerReturn(r, stop_reason) ==
    /\ worker[r] = "running"
    /\ Callback(r, EvResult(stop_reason))
    /\ worker' = [worker EXCEPT ![r] = "returned"]
    /\ UNCHANGED handlerVars
    /\ UNCHANGED extVars
    /\ UNCHANGED <<super_agent, orch, task_done, delivered, sent,
                   closed_at>>

\* agent(message) raises: the exception is stored in the executor future.
WorkerRaise(r) ==
    /\ worker[r] = "running"
    /\ worker' = [worker EXCEPT ![r] = "raised"]
    /\ UNCHANGED handlerVars
    /\ UNCHANGED extVars
    /\ UNCHANGED <<super_agent, handlers, orch, task_done, queue, enqueued,
                   delivered, produced, sent,
                   closed_at>>

\* The event loop runs the executor future's done callback.
TaskDone(r) ==
    /\ worker[r] \in {"returned", "raised"}
    /\ ~task_done[r]
    /\ task_done' = [task_done EXCEPT ![r] = TRUE]
    /\ UNCHANGED handlerVars
    /\ UNCHANGED extVars
    /\ UNCHANGED <<super_agent, handlers, orch, worker, queue, enqueued, delivered,
                   produced, sent,
                   closed_at>>

\* The loop with `await queue.get()` in place of the bounded wait_for: the
\* test of task.done() is reached again only after an item was yielded.
LoopExit_notimeout(r) ==
    /\ orch[r] = "loop"
    /\ task_done[r]
    /\ queue[r] # <<>>
    /\ delivered' = [delivered EXCEPT ![r] = Append(@, QueueGet(queue[r]).item)]
    /\ queue' = [queue EXCEPT ![r] = QueueGet(queue[r]).rest]
    /\ orch' = [orch EXCEPT ![r] = "drain"]
    /\ UNCHANGED handlerVars
    /\ UNCHANGED extVars
    /\ UNCHANGED <<super_agent, handlers, worker, task_done, enqueued, produced, sent,
                   closed_at>>

\* `while not task.done():` finds the task done, at the first test or after a
\* yield or a timeout, and the loop is left.
LoopExit(r) ==
    /\ orch[r] = "loop"
    /\ task_done[r]
    /\ orch' = [orch EXCEPT ![r] = "drain"]
    /\ UNCHANGED handlerVars
    /\ UNCHANGED extVars
    /\ UNCHANGED <<super_agent, handlers, worker, task_done, queue, enqueued,
                   delivered, produced, sent,
                   closed_at>>

\* `sse_event = await asyncio.wait_for(queue.get(), timeout=0.1); yield sse_event`
\* The coroutine may already wait in queue.get() when the task becomes done,
\* so an item can still be taken then.
GetItem(r) ==
    /\ orch[r] = "loop"
    /\ queue[r] # <<>>
    /\ delivered' = [delivered EXCEPT ![r] = Append(@, QueueGet(queue[r]).item)]
    /\ queue' = [queue EXCEPT ![r] = QueueGet(queue[r]).rest]
    /\ UNCHANGED handlerVars
    /\ UNCHANGED extVars
    /\ UNCHANGED <<super_agent, handlers, orch, worker, task_done, enqueued, produced,
                   sent,
                   closed_at>>

\* `except asyncio.TimeoutError: continue` while the task is not done: the
\* loop goes round and waits again.
GetTimeout(r) ==
    /\ orch[r] = "loop"
    /\ ~task_done[r]
    /\ UNCHANGED vars

\* `while not queue.empty(): sse_event = queue.get_nowait(); yield sse_event`
DrainItem(r) ==
    /\ orch[r] = "drain"
    /\ queue[r] # <<>>
    /\ delivered' = [delivered EXCEPT ![r] = Append(@, QueueGet(queue[r]).item)]
    /\ queue' = [queue EXCEPT ![r] = QueueGet(queue[r]).rest]
    /\ UNCHANGED handlerVars
    /\ UNCHANGED extVars
    /\ UNCHANGED <<super_agent, handlers, orch, worker, task_done, enqueued,
                   produced, sent,
                   closed_at>>

\* The drain loop finds the queue empty and generate() returns.
DrainEnd(r) ==
    /\ orch[r] = "drain"
    /\ queue[r] = <<>>
    /\ orch' = [orch EXCEPT ![r] = "ended"]
    /\ UNCHANGED handlerVars
    /\ UNCHANGED extVars
    /\ UNCHANGED <<super_agent, handlers, worker, task_done, queue, enqueued,
                   delivered, produced, sent,
                   closed_at>>

StreamNext ==
    \E r \in Requests :
        \/ Request(r)
        \/ StartGenerate(r)
        \/ \E kw \in WorkerEvents : WorkerEvent(r, kw)
        \/ \E sr \in StopReasons : WorkerReturn(r, sr)
        \/ WorkerRaise(r)
        \/ TaskDone(r)
        \/ LoopExit(r)
        \/ GetItem(r)
        \/ GetTimeout(r)
        \/ DrainItem(r)
        \/ DrainEnd(r)

StreamSpec == Init /\ [][StreamNext]_vars

\* ------------------------------------------------------------------------
\* LiveSpec: /superagent/stream with a fairly scheduled event loop
\* ------------------------------------------------------------------------

\* The requests that arrive in LiveSpec.
LiveRequests == 1..NumLiveRequests

LiveNext ==
    \E r \in LiveRequests :
        \/ Request(r)
        \/ StartGenerate(r)
        \/ \E kw \in WorkerEvents : WorkerEvent(r, kw)
        \/ \E sr \in StopReasons : WorkerReturn(r, sr)
        \/ WorkerRaise(r)
        \/ TaskDone(r)
        \/ LoopExit(r)
        \/ GetItem(r)
        \/ GetTimeout(r)
        \/ DrainItem(r)
        \/ DrainEnd(r)

\* The event loop keeps running: the executor future's done callback is run,
\* every wait_for returns within its 0.1 s timeout so that task.done() is
\* tested again, and the drain loop, which never awaits, runs to its end.
\* Nothing is assumed about the worker threads.
LiveFairness ==
    \A r \in LiveRequests :
        /\ WF_vars(TaskDone(r))
        /\ WF_vars(LoopExit(r))
        /\ WF_vars(DrainItem(r))
        /\ WF_vars(DrainEnd(r))

LiveSpec == Init /\ [][LiveNext]_vars /\ LiveFairness

\* ------------------------------------------------------------------------
\* DisconnectSpec: /superagent/stream with clients that disconnect
\* ------------------------------------------------------------------------

\* The client of request r disconnects: the StreamingResponse stops
\* iterating generate(), which is closed where it is suspended (in wait_for
\* or at a yield).  generate() has no finally clause and never cancels or
\* signals the executor task; the queue is left as it is.
Disconnect(r) ==
    /\ orch[r] \in {"loop", "drain"}
    /\ orch' = [orch EXCEPT ![r] = "closed"]
    /\ closed_at' = [closed_at EXCEPT ![r] = Len(produced[r])]
    /\ UNCHANGED handlerVars
    /\ UNCHANGED extVars
    /\ UNCHANGED <<super_agent, handlers, worker, task_done, queue, enqueued, delivered,
                   produced, sent>>

DisconnectNext ==
    \/ StreamNext
    \/ \E r \in Requests : Disconnect(r)

DisconnectSpec == Init /\ [][DisconnectNext]_vars

\* ------------------------------------------------------------------------
\* Helpers for the properties
\* ------------------------------------------------------------------------

\* The frames of a log, in emission order.
RECURSIVE FlattenLog(_)
FlattenLog(lg) == IF lg = <<>> THEN <<>> ELSE Head(lg).out \o FlattenLog(Tail(lg))

\* Every frame the handler of Spec has emitted.
Frames == FlattenLog(log)

IsPrefix(s, t) == Len(s) <= Len(t) /\ SubSeq(t, 1, Len(s)) = s

\* Number of frames of a type in a sequence.
CountType(fs, type) == Cardinality({k \in 1..Len(fs) : fs[k].type = type})

\* Number of frames of a type for a tool call id in a sequence.
CountTool(fs, type, t) ==
    Cardinality({k \in 1..Len(fs) : fs[k].type = type /\ fs[k].tool = t})

IsBlockStart(f) == f.type \in {"text-start", "reasoning-start"}

EndType(f) == IF f.type = "text-start" THEN "text-end" ELSE "reasoning-end"

\* Frame e is the end frame of the block that frame f starts.
IsEndOf(e, f) == e.type = EndType(f) /\ e.id = f.id

\* The tool call ids the fed events carry.
ToolIds == {"t1", "t2"}

\* Event number i of the log is a current_tool_use event that names a tool
\* and carries toolUseId t.
ToolUseAt(i, t) ==
    /\ log[i].ev.current_tool_use.has
    /\ log[i].ev.current_tool_use.name # ""
    /\ log[i].ev.current_tool_use.toolUseId = t

\* Event number i of the log is a tool output event for t.
ToolOutputAt(i, t) ==
    \/ log[i].ev.tool_stream_event.has /\ log[i].ev.tool_stream_event.toolUseId = t
    \/ log[i].ev.tool_result.has /\ log[i].ev.tool_result.toolUseId = t

NoOutputBetween(i, j, t) == \A k \in (i+1)..(j-1) : ~ToolOutputAt(k, t)

\* Event i is the first current_tool_use for t since the last output for t.
RunStart(i, t) == ~\E p \in 1..(i-1) : ToolUseAt(p, t) /\ NoOutputBetween(p, i, t)

\* The frames emitted by events i..j.
FramesOf(i, j) == FlattenLog(SubSeq(log, i, j))

\* ------------------------------------------------------------------------
\* Properties
\* ------------------------------------------------------------------------

\* C1: between two processed events at most one of the text block and the
\* reasoning block is open, and in the emitted frames no reasoning-start lies
\* between a text-start and its text-end, nor a text-start between a
\* reasoning-start and its reasoning-end.
C1_MutualExclusion ==
    LET F == Frames
    IN  /\ ~(handler.in_text /\ handler.in_reasoning)
        /\ \A i \in 1..Len(F) :
              IsBlockStart(F[i]) =>
                  \A j \in (i+1)..Len(F) :
                      ( IsBlockStart(F[j]) /\ F[i].type # F[j].type )
                      => \E k \in (i+1)..(j-1) : IsEndOf(F[k], F[i])

\* A text block was opened and a reasoning block was opened after it.
C1_Witness ==
    LET F == Frames
    IN  \E i, j \in 1..Len(F) :
            i < j /\ F[i].type = "text-start" /\ F[j].type = "reasoning-start"

\* C2: once a complete or result event has emitted the terminal sequence,
\* every later event emits no frame at all.
C2_TerminalAbsorbing ==
    \A i, j \in 1..Len(log) :
        ( /\ i < j
          /\ log[i].ev.complete \/ log[i].ev.result.has
          /\ CountType(log[i].out, "done") > 0 )
        => log[j].out = <<>>

\* C8: every block id of a text-start or reasoning-start frame has at most
\* one matching end frame, emitted after the start, and that end frame is
\* there before any later finish frame and before any later start frame of
\* a block of the other kind.
C8_BlockPairing ==
    LET F == Frames
    IN  \A i \in 1..Len(F) :
            IsBlockStart(F[i]) =>
                /\ Cardinality({k \in 1..Len(F) : IsEndOf(F[k], F[i])}) <= 1
                /\ \A k \in 1..Len(F) : IsEndOf(F[k], F[i]) => k > i
                /\ \A j \in (i+1)..Len(F) :
                      ( \/ F[j].type = "finish"
                        \/ IsBlockStart(F[j]) /\ F[j].type # F[i].type )
                      => \E k \in (i+1)..(j-1) : IsEndOf(F[k], F[i])

\* A text block, then a reasoning block, then the finish frame.
C8_Witness ==
    LET F == Frames
    IN  \E i, j, k \in 1..Len(F) :
            /\ i < j /\ j < k
            /\ F[i].type = "text-start"
            /\ F[j].type = "reasoning-start"
            /\ F[k].type = "finish"

C10_ToolLifecycle ==
    LET F == Frames
    IN  /\ \A t \in handler.pending_tool_ids :
              /\ CountTool(F, "tool-input-start", t) = 1
              /\ CountTool(F, "tool-input-available", t) = 1
        /\ \A t \in ToolIds :
              CountTool(F, "tool-input-start", t) > 0
              => CountTool(F, "tool-output-available", t)
                   + CountTool(F, "tool-output-error", t) <= 1
        /\ ( Len(log) > 0 /\ CountType(log[Len(log)].out, "done") > 0 )
              => handler.pending_tool_ids = {}

\* C3: when the agent call raises, the client has received exactly one error
\* frame and the terminal finish and done frames when the stream ends.
C3_ErrorTerminates ==
    \A r \in Requests :
        ( orch[r] = "ended" /\ worker[r] = "raised" )
        => /\ CountType(delivered[r], "error") = 1
           /\ CountType(delivered[r], "finish") > 0
           /\ delivered[r] # <<>>
           /\ delivered[r][Len(delivered[r])].type = "done"

\* C4: when the agent call returned normally, the frames delivered to the
\* client end with the done terminator, which occurs exactly once.
C4_EndsWithDone ==
    \A r \in Requests :
        ( orch[r] = "ended" /\ worker[r] = "returned" )
        => /\ delivered[r] # <<>>
           /\ delivered[r][Len(delivered[r])].type = "done"
           /\ CountType(delivered[r], "done") = 1

\* C5: the frames yielded to the transport are at all times a prefix of the
\* frames enqueued on the request's queue.
C5_Fifo == \A r \in Requests : IsPrefix(delivered[r], enqueued[r])

\* Some frames of a request have been yielded while others are still queued.
C5_Witness ==
    \E r \in Requests : Len(delivered[r]) >= 2 /\ queue[r] # <<>>

\* C6: at the moment the stream ends the worker has finished, the queue is
\* empty and every frame the request's worker enqueued has been yielded.
C6_DrainedAtEnd ==
    [][ \A r \in Requests :
          ( orch[r] # "ended" /\ orch'[r] = "ended" )
          => /\ worker[r] \in {"returned", "raised"}
             /\ queue[r] = <<>>
             /\ delivered[r] = produced[r] ]_vars

\* C7: the frames the agent produces while serving a request are enqueued
\* on that request's own queue, and no other frames are.
C7_OwnQueue == \A r \in Requests : enqueued[r] = produced[r]

\* The event reaches the tool result branch: no key tested before it holds.
IsToolResultEvent(kw) ==
    /\ kw.tool_result.has
    /\ ~kw.init_event_loop /\ ~kw.start_event_loop
    /\ ~(kw.reasoningText # "" /\ kw.reasoning)
    /\ kw.data = ""
    /\ ~kw.current_tool_use.has
    /\ ~kw.tool_stream_event.has

IsToolOutput(f) == f.type \in {"tool-output-available", "tool-output-error"}

\* C11: a tool_result event whose toolUseId no earlier current_tool_use
\* event announced does not raise, emits exactly one tool-output-available
\* or tool-output-error frame for that id, and leaves every field of the
\* handler, pending_tool_ids included, as it was.
C11_OrphanResult ==
    \A i \in 1..Len(log) : \A t \in ToolIds :
        ( /\ IsToolResultEvent(log[i].ev)
          /\ log[i].ev.tool_result.toolUseId = t
          /\ ~\E p \in 1..(i-1) : ToolUseAt(p, t) )
        => /\ ~log[i].raised
           /\ Len(log[i].out) = 1
           /\ IsToolOutput(log[i].out[1])
           /\ log[i].out[1].tool = t
           /\ log[i].post = log[i].pre

\* C12: no call raises to its caller, and an event with none of the
\* recognised keys emits no frame and changes no field of the handler.
C12_NeverRaises ==
    \A i \in 1..Len(log) :
        /\ ~log[i].raised
        /\ log[i].ev = NoEvent => ( log[i].out = <<>> /\ log[i].post = log[i].pre )

\* Event kw is an init_event_loop or start_event_loop event.
IsLifecycle(kw) == kw.init_event_loop \/ kw.start_event_loop

\* C13: over everything one handler has emitted the start frame occurs at
\* most once, and an init_event_loop or start_event_loop event that follows
\* an earlier one emits no start frame.
C13_StartOnce ==
    /\ LET F == Frames IN CountType(F, "start") <= 1
    /\ \A i, j \in 1..Len(log) :
          ( i < j /\ IsLifecycle(log[i].ev) /\ IsLifecycle(log[j].ev) )
          => CountType(log[j].out, "start") = 0

\* An init event, a completion event and a second init event were fed, in
\* that order, and the start frame was emitted.
C13_Witness ==
    /\ CountType(Frames, "start") = 1
    /\ \E i, j, k \in 1..Len(log) :
          /\ i < j /\ j < k
          /\ IsLifecycle(log[i].ev)
          /\ log[j].ev.complete
          /\ IsLifecycle(log[k].ev)

\* C14: over everything one handler has emitted the start-step frame occurs
\* at most once and the finish-step frame at most once.
C14_OneStep ==
    LET F == Frames
    IN  /\ CountType(F, "start-step") <= 1
        /\ CountType(F, "finish-step") <= 1

\* The events fed so far, in order.
LogEvents == [i \in 1..Len(log) |-> log[i].ev]

\* The events of the text answer scenario.
ScenarioA == << EvInit, EvData("Hi"), EvData(" there"), EvComplete >>

\* C15: a fresh handler fed init, text 'Hi', text ' there', complete has
\* emitted exactly start, start-step, text-start, text-delta 'Hi',
\* text-delta ' there', text-end, finish-step, finish 'stop', done, in that
\* order, the four text frames carrying one block id.
C15_ScenarioA ==
    LogEvents = ScenarioA
    => LET F == Frames
       IN  /\ Len(F) = 9
           /\ F[3].id # NoId
           /\ F = << emit_start, emit_start_step,
                     emit_text_start(F[3].id),
                     emit_text_delta(F[3].id, "Hi"),
                     emit_text_delta(F[3].id, " there"),
                     emit_text_end(F[3].id),
                     emit_finish_step, emit_finish("stop"), emit_done >>

\* The four events of the text answer scenario have been fed.
C15_Witness == LogEvents = ScenarioA /\ handler.started /\ ~handler.in_text

\* The events of the failing tool call scenario.
ScenarioD ==
    << EvToolUse("t1", "x", "{}", FALSE), EvToolResult("t1", "error", <<TextItem("boom")>>) >>

\* The three tool frames of the failing tool call scenario.
ScenarioDToolFrames ==
    << emit_tool_input_start("t1", "x"),
       emit_tool_input_available("t1", "x", "{}"),
       emit_tool_output_error("t1", "boom") >>

\* C16, as the code has it: a fresh handler fed the failing tool call has
\* emitted start and start-step and then exactly the three tool frames; a
\* handler an init event has started emits exactly the three tool frames
\* for the two tool events.
C16_ScenarioD ==
    /\ LogEvents = ScenarioD => Frames = << emit_start, emit_start_step >> \o ScenarioDToolFrames
    /\ LogEvents = << EvInit >> \o ScenarioD => FramesOf(2, 3) = ScenarioDToolFrames

\* The two events of the failing tool call have been fed to a fresh handler.
C16_Witness == LogEvents = ScenarioD /\ handler.pending_tool_ids = {}

\* C16, as stated: a fresh handler fed the failing tool call has emitted
\* exactly the three tool frames and no other frame.
C16_ScenarioD_Stated == LogEvents = ScenarioD => Frames = ScenarioDToolFrames

\* The event reaches the result branch: no key tested before it holds.
IsResultEvent(kw) ==
    /\ kw.result.has
    /\ ~kw.init_event_loop /\ ~kw.start_event_loop
    /\ ~(kw.reasoningText # "" /\ kw.reasoning)
    /\ kw.data = ""
    /\ ~kw.current_tool_use.has
    /\ ~kw.tool_stream_event.has
    /\ ~kw.tool_result.has
    /\ ~kw.complete

\* C17: a result event emits exactly one finish frame; its finishReason is
\* 'stop' for end_turn and stop_sequence, 'length' for max_tokens,
\* 'tool-calls' for tool_use and 'stop' for any other or absent stop_reason,
\* hence always one of these three values.
C17_FinishReason ==
    \A i \in 1..Len(log) :
        IsResultEvent(log[i].ev)
        => LET sr == log[i].ev.result.stop_reason
               fin == SelectSeq(log[i].out, LAMBDA f : f.type = "finish")
           IN  /\ Len(fin) = 1
               /\ fin[1].val \in {"stop", "length", "tool-calls"}
               /\ sr \in {"end_turn", "stop_sequence"} => fin[1].val = "stop"
               /\ sr = "max_tokens" => fin[1].val = "length"
               /\ sr = "tool_use" => fin[1].val = "tool-calls"
               /\ sr \notin {"end_turn", "stop_sequence", "max_tokens", "tool_use"}
                     => fin[1].val = "stop"

\* Result events with stop_reason max_tokens, tool_use, an unmapped value and
\* no stop_reason at all have been fed.
C17_Witness ==
    \A sr \in {"max_tokens", "tool_use", "content_filtered", Absent} :
        \E i \in 1..Len(log) :
            IsResultEvent(log[i].ev) /\ log[i].ev.result.stop_reason = sr

\* No key tested before current_tool_use holds.
NoKeyBeforeToolUse(kw) ==
    /\ ~kw.init_event_loop /\ ~kw.start_event_loop
    /\ ~(kw.reasoningText # "" /\ kw.reasoning)
    /\ kw.data = ""

\* The call of a handler in state st with event kw reaches a frame whose
\* payload json.dumps rejects: the input of a tool use not yet pending, the
\* data of a tool stream event, or the output of a tool result.
EncodingFails(st, kw) ==
    /\ NoKeyBeforeToolUse(kw)
    /\ \/ /\ kw.current_tool_use.has /\ kw.current_tool_use.mapping
          /\ kw.current_tool_use.name # ""
          /\ kw.current_tool_use.toolUseId \notin st.pending_tool_ids
          /\ ~kw.current_tool_use.encodable
       \/ /\ ~kw.current_tool_use.has
          /\ kw.tool_stream_event.has /\ kw.tool_stream_event.mapping
          /\ ~Encodable(kw.tool_stream_event.data)
       \/ /\ IsToolResultEvent(kw)
          /\ kw.tool_result.mapping
          /\ kw.tool_result.status # "error"
          /\ ~kw.tool_result.contentNull
          /\ ~Encodable(kw.tool_result.content)

\* C18: a call in which the encoding of a frame fails does not raise to its
\* caller, and it leaves the handler consistent with the frames it did
\* emit: a tool id whose tool-input-start was emitted is pending.
C18_EncodingErrorDropsFrame ==
    \A i \in 1..Len(log) :
        EncodingFails(log[i].pre, log[i].ev)
        => /\ ~log[i].raised
           /\ \A k \in 1..Len(log[i].out) :
                 log[i].out[k].type = "tool-input-start"
                 => log[i].out[k].tool \in log[i].post.pending_tool_ids

\* C19: once the worker running a request's agent call has returned or
\* raised, the request's stream ends, whatever the agent emitted.
C19_StreamEnds ==
    \A r \in LiveRequests :
        ( worker[r] \in {"returned", "raised"} ) ~> ( orch[r] = "ended" )

\* A stream has ended after its agent call raised without any completion
\* event: frames were delivered, no done frame among them.
C19_Witness ==
    \E r \in LiveRequests :
        /\ orch[r] = "ended"
        /\ worker[r] = "raised"
        /\ delivered[r] # <<>>
        /\ CountType(delivered[r], "done") = 0

\* C20: a running worker can always go on, whatever the orchestrator does;
\* a client's disconnect changes neither the worker nor the queue; and the
\* frames a request's worker enqueues after its client disconnected are
\* never delivered: they all stay on the queue they were put on.
C20_WorkerIndependent ==
    [][ \A r \in Requests :
          /\ worker[r] = "running" => \A sr \in StopReasons : ENABLED WorkerReturn(r, sr)
          /\ ( orch[r] # "closed" /\ orch'[r] = "closed" )
                => ( worker' = worker /\ queue' = queue )
          /\ orch'[r] = "closed"
                => Len(queue'[super_agent']) >= Len(produced'[r]) - closed_at'[r] ]_vars


\* ------------------------------------------------------------------------
\* PersistSpec: the messages table under /chat/stream and /superagent/stream
\* ------------------------------------------------------------------------

\* The session of the /chat/stream conversation; a /superagent/stream
\* request r carries session_id r in its body.
ChatSession == "chat"

\* The content chunks the Perplexity stream can deliver.
ChatChunks == {"Hel", "lo"}

\* At most this many content chunks in one /chat/stream response.
MaxChatChunks == 2

\* ConversationMemory.add_message: one row appended to the messages table.
add_message(table, session_id, role, content) ==
    Append(table, [session_id |-> session_id, role |-> role, content |-> content])

\* chat_stream up to `return StreamingResponse(...)`: the user message is
\* saved before the stream starts.
ChatStream(message) ==
    /\ chat.state = "idle"
    /\ messages_table' = add_message(messages_table, ChatSession, "user", message)
    /\ chat' = [state |-> "streaming", full_response |-> "", chunks |-> 0]
    /\ UNCHANGED <<handlerVars, streamVars, mcpVars, voiceVars, memVars, peerVars>>

\* generate() of /chat/stream receives a "content" chunk.
ChatContent(c) ==
    /\ chat.state = "streaming"
    /\ chat.chunks < MaxChatChunks
    /\ chat' = [chat EXCEPT !.full_response = @ \o c, !.chunks = @ + 1]
    /\ UNCHANGED messages_table
    /\ UNCHANGED <<handlerVars, streamVars, mcpVars, voiceVars, memVars, peerVars>>

\* generate() of /chat/stream receives the "done" chunk: the assistant's
\* response is saved, then the done frame is yielded.
ChatDone ==
    /\ chat.state = "streaming"
    /\ messages_table' =
           add_message(messages_table, ChatSession, "assistant", chat.full_response)
    /\ chat' = [chat EXCEPT !.state = "done"]
    /\ UNCHANGED <<handlerVars, streamVars, mcpVars, voiceVars, memVars, peerVars>>

\* generate() of /chat/stream receives an error chunk: it is forwarded and the
\* Perplexity stream ends with nothing saved.
ChatError ==
    /\ chat.state = "streaming"
    /\ chat' = [chat EXCEPT !.state = "failed"]
    /\ UNCHANGED messages_table
    /\ UNCHANGED <<handlerVars, streamVars, mcpVars, voiceVars, memVars, peerVars>>

PersistNext ==
    \/ StreamNext
    \/ ChatStream("hello")
    \/ \E c \in ChatChunks : ChatContent(c)
    \/ ChatDone
    \/ ChatError

PersistSpec == Init /\ [][PersistNext]_vars

\* The rows of the table that belong to a session, in insertion order.
RowsOf(session_id) ==
    SelectSeq(messages_table, LAMBDA row : row.session_id = session_id)

\* C21: once a /superagent/stream request has been streamed to its end, the
\* messages table holds, for the request's session, the user message with
\* role "user" followed by the agent's response with role "assistant".
C21_Persisted ==
    \A r \in Requests :
        orch[r] = "ended" =>
            LET rows == RowsOf(r)
            IN  /\ Len(rows) >= 2
                /\ rows[Len(rows) - 1].role = "user"
                /\ rows[Len(rows)].role = "assistant"

\* ------------------------------------------------------------------------
\* McpSpec: load_mcp_server / unload_mcp_server on the agent's registry
\* ------------------------------------------------------------------------

\* The servers of AVAILABLE_MCP_SERVERS the model loads, with the names of
\* the tools each serves: distinct servers serve distinct names, none of them
\* a name the agent is constructed with.
AVAILABLE_MCP_SERVERS == {"telnyx", "playwright", "mcp-installer"}

ServerTools ==
    [s \in AVAILABLE_MCP_SERVERS |->
        CASE s = "telnyx" -> {"send_sms", "make_call"}
          [] s = "playwright" -> {"browser_navigate"}
          [] s = "mcp-installer" -> {"install_repo_mcp_server"}]

\* The server ids the tools are called with: the known ones and an unknown.
ServerIds == AVAILABLE_MCP_SERVERS \cup {"nope"}

\* At most this many load/unload calls in a run.
MaxMcpCalls == 4

\* tool_registry.process_tools([client]): the server's tools are registered
\* under their names.
process_tools(reg, server_id) == reg \cup ServerTools[server_id]

\* load_mcp_server: the registry and _mcp_clients it leaves.
load_mcp_server(agent, reg, clients, server_id) ==
    IF server_id \notin AVAILABLE_MCP_SERVERS
    THEN [registry |-> reg, clients |-> clients]
    ELSE IF server_id \in DOMAIN clients
    THEN [registry |-> reg, clients |-> clients]
    ELSE IF agent # NoAgent
    THEN LET tools_before == reg
             tools_after == process_tools(reg, server_id)
             added_tool_names == tools_after \ tools_before
         IN  [registry |-> tools_after,
              clients |-> clients @@ (server_id :> added_tool_names)]
    ELSE [registry |-> reg, clients |-> clients]

\* An unload that stops the client and forgets the server but leaves its
\* tools in the registry.
unload_mcp_server_keep(agent, reg, clients, server_id) ==
    IF server_id \notin DOMAIN clients
    THEN [registry |-> reg, clients |-> clients]
    ELSE [registry |-> reg,
          clients |-> [s \in DOMAIN clients \ {server_id} |-> clients[s]]]

\* unload_mcp_server: the registry and _mcp_clients it leaves.
unload_mcp_server(agent, reg, clients, server_id) ==
    IF server_id \notin DOMAIN clients
    THEN [registry |-> reg, clients |-> clients]
    ELSE LET tool_names == clients[server_id]
         IN  [registry |-> IF agent # NoAgent THEN reg \ tool_names ELSE reg,
              clients |-> [s \in DOMAIN clients \ {server_id} |-> clients[s]]]

\* create_superagent() called directly, as the command line entry point and
\* the verification scripts do.
CreateSuperagent ==
    /\ super_agent = NoAgent
    /\ super_agent' = get_or_create_superagent(super_agent, 1)
    /\ registry' = AgentTools(super_agent, registry)
    /\ UNCHANGED <<handlerVars, persistVars, voiceVars, memVars, peerVars>>
    /\ UNCHANGED <<handlers, orch, worker, task_done, queue, enqueued, delivered,
                   produced, sent, closed_at, mcp_clients, mcp_calls>>

\* One call of a tool, recorded with the registry before and after it.
McpCall(op, server_id, res) ==
    /\ Len(mcp_calls) < MaxMcpCalls
    /\ registry' = res.registry
    /\ mcp_clients' = res.clients
    /\ mcp_calls' = Append(mcp_calls,
           [op |-> op, server_id |-> server_id, agent |-> super_agent # NoAgent,
            loaded |-> server_id \in DOMAIN mcp_clients,
            pre |-> registry, post |-> res.registry,
            clients |-> DOMAIN res.clients])
    /\ UNCHANGED <<handlerVars, streamVars, persistVars, voiceVars, memVars, peerVars>>

LoadMcp(server_id) ==
    McpCall("load", server_id,
            load_mcp_server(super_agent, registry, mcp_clients, server_id))

UnloadMcp(server_id) ==
    McpCall("unload", server_id,
            unload_mcp_server(super_agent, registry, mcp_clients, server_id))

McpNext ==
    \/ CreateSuperagent
    \/ \E server_id \in ServerIds : LoadMcp(server_id)
    \/ \E server_id \in ServerIds : UnloadMcp(server_id)

McpSpec == Init /\ [][McpNext]_vars

\* The servers a call loaded on the initialised agent that no later call
\* unloaded.
Outstanding ==
    {s \in AVAILABLE_MCP_SERVERS :
        \E i \in 1..Len(mcp_calls) :
            /\ mcp_calls[i].op = "load"
            /\ mcp_calls[i].server_id = s
            /\ mcp_calls[i].agent
            /\ \A j \in (i + 1)..Len(mcp_calls) :
                   ~(mcp_calls[j].op = "unload" /\ mcp_calls[j].server_id = s)}

\* Call i loads a server that was not loaded and call i + 1 unloads it.
LoadThenUnload(i) ==
    /\ mcp_calls[i].op = "load"
    /\ mcp_calls[i].agent
    /\ mcp_calls[i].server_id \in AVAILABLE_MCP_SERVERS
    /\ ~mcp_calls[i].loaded
    /\ mcp_calls[i + 1].op = "unload"
    /\ mcp_calls[i + 1].server_id = mcp_calls[i].server_id

\* C22: on an initialised agent, once every loaded server has been unloaded
\* the registry holds exactly the tools the agent was constructed with and
\* _mcp_clients is empty; and a load of a server followed by its unload
\* restores the tool count and removes the server from _mcp_clients.
C22_Restored ==
    /\ (super_agent # NoAgent /\ Outstanding = {}) =>
           (registry = BaseTools /\ DOMAIN mcp_clients = {})
    /\ \A i \in 1..(Len(mcp_calls) - 1) :
           LoadThenUnload(i) =>
               /\ Cardinality(mcp_calls[i].post) > Cardinality(mcp_calls[i].pre)
               /\ Cardinality(mcp_calls[i + 1].post) = Cardinality(mcp_calls[i].pre)
               /\ mcp_calls[i].server_id \in mcp_calls[i].clients
               /\ mcp_calls[i].server_id \notin mcp_calls[i + 1].clients

\* Two servers were loaded together and both unloaded again.
C22_Witness ==
    /\ Len(mcp_calls) = 4
    /\ mcp_calls[1].op = "load" /\ mcp_calls[2].op = "load"
    /\ Cardinality(mcp_calls[2].clients) = 2
    /\ mcp_calls[3].op = "unload" /\ mcp_calls[4].op = "unload"
    /\ Outstanding = {}
    /\ registry = BaseTools

\* ------------------------------------------------------------------------
\* VoiceSpec: the half-duplex gate of the voice onboarding agent
\* ------------------------------------------------------------------------

\* DEFAULT_MIC_RESUME_DELAY_MS, in ticks of the model's clock.
ResumeDelay == 1

\* The clock stops at this tick.
MaxClock == 3

\* At most this many microphone reads complete in a run.
MaxReads == 2

\* The output events MonitoringOutput tells apart, by class.
OutputEvents ==
    {"BidiResponseStartEvent", "BidiAudioStreamEvent", "BidiInterruptionEvent",
     "BidiResponseCompleteEvent", "BidiTranscriptStreamEvent"}

\* HalfDuplexGate.mark_assistant_busy
mark_assistant_busy(g) == [g EXCEPT !.assistant_busy = TRUE]

\* HalfDuplexGate.mark_assistant_idle at loop time t
mark_assistant_idle(g, t) ==
    [g EXCEPT !.assistant_busy = FALSE, !.resume_mic_at = t + g.resume_delay]

\* wait_until_mic_allowed evaluated at loop time t, from its while test on:
\* where the read stands next.
wait_until_mic_allowed(g, t) ==
    IF g.assistant_busy
    THEN [pc |-> "polling", wake_at |-> 0]
    ELSE LET delay == g.resume_mic_at - t
         IN  IF delay > 0
             THEN [pc |-> "cooldown", wake_at |-> t + delay]
             ELSE [pc |-> "reading", wake_at |-> 0]

\* run_onboarding builds the gate and wraps the microphone input with it.
NewGate ==
    /\ ~gate.made
    /\ gate' = [made |-> TRUE, assistant_busy |-> FALSE, resume_mic_at |-> 0,
                resume_delay |-> ResumeDelay]
    /\ mic' = [mic EXCEPT !.pc = "idle"]
    /\ UNCHANGED clock
    /\ UNCHANGED <<handlerVars, streamVars, persistVars, mcpVars, memVars, peerVars>>

\* MonitoringOutput.__call__(event), from the return of the inner output on:
\* no await separates its tests, so the gate changes in one step.
OutputEvent(event) ==
    /\ gate.made
    /\ gate' = CASE event \in {"BidiResponseStartEvent", "BidiAudioStreamEvent"} ->
                        mark_assistant_busy(gate)
                 [] event \in {"BidiInterruptionEvent", "BidiResponseCompleteEvent"} ->
                        mark_assistant_idle(gate, clock)
                 [] OTHER -> gate
    /\ UNCHANGED <<mic, clock>>
    /\ UNCHANGED <<handlerVars, streamVars, persistVars, mcpVars, memVars, peerVars>>

\* Time passes on the event loop.
Tick ==
    /\ gate.made
    /\ clock < MaxClock
    /\ clock' = clock + 1
    /\ UNCHANGED <<gate, mic>>
    /\ UNCHANGED <<handlerVars, streamVars, persistVars, mcpVars, memVars, peerVars>>

\* The agent calls HalfDuplexAudioInput for the next chunk: the coroutine
\* runs wait_until_mic_allowed up to its first suspension.
ReadStart ==
    /\ mic.pc = "idle"
    /\ Len(mic.reads) < MaxReads
    /\ LET w == wait_until_mic_allowed(gate, clock)
       IN  mic' = [mic EXCEPT !.pc = w.pc, !.wake_at = w.wake_at]
    /\ UNCHANGED <<gate, clock>>
    /\ UNCHANGED <<handlerVars, streamVars, persistVars, mcpVars, memVars, peerVars>>

\* `await asyncio.sleep(0.02)` returns and the while test runs again.
PollWake ==
    /\ mic.pc = "polling"
    /\ LET w == wait_until_mic_allowed(gate, clock)
       IN  mic' = [mic EXCEPT !.pc = w.pc, !.wake_at = w.wake_at]
    /\ UNCHANGED <<gate, clock>>
    /\ UNCHANGED <<handlerVars, streamVars, persistVars, mcpVars, memVars, peerVars>>

\* `await asyncio.sleep(delay)` returns: wait_until_mic_allowed returns and
\* the inner input is awaited.
CooldownWake ==
    /\ mic.pc = "cooldown"
    /\ clock >= mic.wake_at
    /\ mic' = [mic EXCEPT !.pc = "reading", !.wake_at = 0]
    /\ UNCHANGED <<gate, clock>>
    /\ UNCHANGED <<handlerVars, streamVars, persistVars, mcpVars, memVars, peerVars>>

\* `return await self._inner_input()`: the microphone delivers a chunk and
\* the read returns it to the agent.
ReadComplete ==
    /\ mic.pc = "reading"
    /\ mic' = [mic EXCEPT !.pc = "idle",
                          !.reads = Append(@, [busy |-> gate.assistant_busy,
                                               at |-> clock])]
    /\ UNCHANGED <<gate, clock>>
    /\ UNCHANGED <<handlerVars, streamVars, persistVars, mcpVars, memVars, peerVars>>

VoiceNext ==
    \/ NewGate
    \/ \E event \in OutputEvents : OutputEvent(event)
    \/ Tick
    \/ ReadStart
    \/ PollWake
    \/ CooldownWake
    \/ ReadComplete

VoiceSpec == Init /\ [][VoiceNext]_vars

\* C23: no microphone read completes while the gate's busy flag is set.
C23_NoReadWhileBusy ==
    \A i \in 1..Len(mic.reads) : ~mic.reads[i].busy

\* ------------------------------------------------------------------------
\* MemSpec: the sliding window of ron_dspy's ConversationMemory
\* ------------------------------------------------------------------------

\* Memories are built with window_size in 0..MaxWindow.
MaxWindow == 2

\* At most this many messages are added to a memory.
MaxAdds == 3

\* The message contents and the tool name of the model.
Contents == {"a", "b"}
ToolName == "search"

\* Python's seq[start:] on a list: a negative start counts from the end and
\* is clipped at the first element, a start of 0 (which -0 is) is the whole
\* list, and a start beyond the end gives the empty list.
PySliceFrom(seq, start) ==
    LET n == Len(seq)
        from == IF start < 0
                THEN (IF n + start < 0 THEN 0 ELSE n + start)
                ELSE (IF start > n THEN n ELSE start)
    IN  SubSeq(seq, from + 1, n)

\* ConversationMemory(window_size)
NewConversationMemory(window_size) ==
    [made |-> TRUE, window_size |-> window_size, messages |-> <<>>]

\* Message(role=..., content=...)
Message(role, content) == [role |-> role, content |-> content]

\* ConversationMemory.add: the memory it leaves.
add(mem, role, content) ==
    LET appended == Append(mem.messages, Message(role, content))
    IN  [mem EXCEPT !.messages =
            IF Len(appended) > mem.window_size
            THEN PySliceFrom(appended, 0 - mem.window_size)
            ELSE appended]

add_user(mem, content) == add(mem, "user", content)

add_assistant(mem, content) == add(mem, "assistant", content)

add_tool(mem, tool_name, result) ==
    add(mem, "tool", "[" \o tool_name \o "]: " \o result)

\* A memory is constructed.
NewMemory(window_size) ==
    /\ ~conversation.made
    /\ conversation' = NewConversationMemory(window_size)
    /\ UNCHANGED added
    /\ UNCHANGED <<handlerVars, streamVars, persistVars, mcpVars, voiceVars, peerVars>>

\* One call that adds a message: the memory after it, and the message noted.
MemCall(mem) ==
    /\ conversation.made
    /\ Len(added) < MaxAdds
    /\ conversation' = mem
    /\ added' = Append(added, mem.messages[Len(mem.messages)])
    /\ UNCHANGED <<handlerVars, streamVars, persistVars, mcpVars, voiceVars, peerVars>>

Add(role, content) == MemCall(add(conversation, role, content))

AddUser(content) == MemCall(add_user(conversation, content))

AddAssistant(content) == MemCall(add_assistant(conversation, content))

AddTool(result) == MemCall(add_tool(conversation, ToolName, result))

MemNext ==
    \/ \E w \in 0..MaxWindow : NewMemory(w)
    \/ \E c \in Contents : Add("system", c)
    \/ \E c \in Contents : AddUser(c)
    \/ \E c \in Contents : AddAssistant(c)
    \/ \E c \in Contents : AddTool(c)

MemSpec == Init /\ [][MemNext]_vars

\* The last n elements of a sequence (all of it when it is shorter).
LastN(seq, n) ==
    IF Len(seq) <= n THEN seq ELSE SubSeq(seq, Len(seq) - n + 1, Len(seq))

\* C24: whatever window_size >= 0 a memory was built with, after any sequence
\* of add calls it retains at most window_size messages, and they are the
\* most recently added ones in insertion order.
C24_Window ==
    conversation.made =>
        /\ Len(conversation.messages) <= conversation.window_size
        /\ conversation.messages = LastN(added, conversation.window_size)

\* ------------------------------------------------------------------------
\* Properties of single handler calls
\* ------------------------------------------------------------------------

\* The step feeds one event to the handler of Spec.
Fed == Len(log') = Len(log) + 1

\* The event fed by the step and the frames the handler emitted for it.
FedEvent == log'[Len(log')].ev
FedOut == log'[Len(log')].out

\* Event kw takes the reasoning branch / the text branch of __call__.
IsReasoningDelta(kw) ==
    ~IsLifecycle(kw) /\ kw.reasoningText # "" /\ kw.reasoning

IsTextDelta(kw) ==
    ~IsLifecycle(kw) /\ ~(kw.reasoningText # "" /\ kw.reasoning) /\ kw.data # ""

\* No frame emitted before the step carries block id id.
FreshId(id) ==
    LET F == Frames IN id # NoId /\ \A k \in 1..Len(F) : F[k].id # id

\* C25: a reasoning delta that arrives while a text block is open emits
\* text-end for the open block, then reasoning-start and reasoning-delta
\* with a new id; a text delta that arrives while a reasoning block is open
\* emits reasoning-end for the open block, then text-start and text-delta
\* with a new id; a delta that arrives while a block of its own kind is open
\* emits only the delta, with the id of the open block.
C25_Transition ==
    [][ Fed =>
        /\ (IsReasoningDelta(FedEvent) /\ handler.in_text) =>
              /\ FedOut = << emit_text_end(handler.text_id),
                             emit_reasoning_start(handler'.reasoning_id),
                             emit_reasoning_delta(handler'.reasoning_id,
                                                  FedEvent.reasoningText) >>
              /\ FreshId(handler'.reasoning_id)
        /\ (IsTextDelta(FedEvent) /\ handler.in_reasoning) =>
              /\ FedOut = << emit_reasoning_end(handler.reasoning_id),
                             emit_text_start(handler'.text_id),
                             emit_text_delta(handler'.text_id, FedEvent.data) >>
              /\ FreshId(handler'.text_id)
        /\ (IsReasoningDelta(FedEvent) /\ handler.in_reasoning) =>
              FedOut = << emit_reasoning_delta(handler.reasoning_id,
                                               FedEvent.reasoningText) >>
        /\ (IsTextDelta(FedEvent) /\ handler.in_text) =>
              FedOut = << emit_text_delta(handler.text_id, FedEvent.data) >>
      ]_vars

\* A reasoning delta closed a text block, a text delta closed a reasoning
\* block, and a text delta went into the block already open.
C25_Witness ==
    \E i, j, k \in 1..Len(log) :
        /\ IsReasoningDelta(log[i].ev)
        /\ Len(log[i].out) = 3 /\ log[i].out[1].type = "text-end"
        /\ IsTextDelta(log[j].ev)
        /\ Len(log[j].out) = 3 /\ log[j].out[1].type = "reasoning-end"
        /\ IsTextDelta(log[k].ev)
        /\ Len(log[k].out) = 1 /\ log[k].out[1].type = "text-delta"

\* Event kw takes the tool use branch of __call__.
IsToolUse(kw) ==
    /\ ~IsLifecycle(kw) /\ ~IsReasoningDelta(kw) /\ ~IsTextDelta(kw)
    /\ kw.current_tool_use.has /\ kw.current_tool_use.name # ""

\* Frame e, at position k of fs, lies before every tool-input-start of fs.
BeforeToolInput(fs, k, e) ==
    /\ fs[k] = e
    /\ \A m \in 1..Len(fs) : fs[m].type = "tool-input-start" => k < m

\* Frame d is a delta of the block that frame e ends.
IsDeltaOfEnded(d, e) ==
    /\ d.id = e.id
    /\ \/ e.type = "text-end" /\ d.type = "text-delta"
       \/ e.type = "reasoning-end" /\ d.type = "reasoning-delta"

\* C26: a current_tool_use event with a name that arrives while a text or
\* reasoning block is open emits the end frame of that block before any
\* tool-input-start frame, and no delta with the id of a closed block is
\* emitted after its end frame.
C26_CloseBeforeTool ==
    [][ Fed =>
        /\ (IsToolUse(FedEvent) /\ handler.in_text) =>
              \E k \in 1..Len(FedOut) :
                  BeforeToolInput(FedOut, k, emit_text_end(handler.text_id))
        /\ (IsToolUse(FedEvent) /\ handler.in_reasoning) =>
              \E k \in 1..Len(FedOut) :
                  BeforeToolInput(FedOut, k, emit_reasoning_end(handler.reasoning_id))
        /\ \A m \in 1..Len(FedOut) :
               FedOut[m].type \in {"text-delta", "reasoning-delta"} =>
                   LET G == Frames \o FedOut
                   IN  \A i \in 1..(Len(G) - Len(FedOut) + m - 1) :
                           ~IsDeltaOfEnded(FedOut[m], G[i])
      ]_vars

\* A tool use event closed a text block and announced its tool, and text
\* was streamed again afterwards.
C26_Witness ==
    \E i, j \in 1..Len(log) :
        /\ i < j
        /\ IsToolUse(log[i].ev)
        /\ Len(log[i].out) = 3
        /\ log[i].out[1].type = "text-end"
        /\ log[i].out[2].type = "tool-input-start"
        /\ IsTextDelta(log[j].ev)

\* The step feeds a current_tool_use event with a name whose toolUseId is in
\* pending_tool_ids when it arrives.
FedPendingToolUse ==
    /\ Fed
    /\ IsToolUse(FedEvent)
    /\ FedEvent.current_tool_use.toolUseId \in handler.pending_tool_ids

\* The state fields of the handler are the same in a and b (the count of
\* ids drawn is no field of the handler).
SameFields(a, b) ==
    /\ a.started = b.started /\ a.in_step = b.in_step
    /\ a.in_text = b.in_text /\ a.in_reasoning = b.in_reasoning
    /\ a.text_id = b.text_id /\ a.reasoning_id = b.reasoning_id
    /\ a.pending_tool_ids = b.pending_tool_ids

\* The frames that open the stream and the step where they are not open and
\* close the block that is open, for a handler in state st.
OpenAndClose(st) ==
    (IF st.started THEN <<>> ELSE << emit_start >>)
    \o (IF st.in_step THEN <<>> ELSE << emit_start_step >>)
    \o (IF st.in_reasoning THEN << emit_reasoning_end(st.reasoning_id) >> ELSE <<>>)
    \o (IF st.in_text THEN << emit_text_end(st.text_id) >> ELSE <<>>)

\* C27: a current_tool_use event whose tool id is already pending emits no
\* tool-input-start and no tool-input-available frame and leaves
\* pending_tool_ids as it is; like every tool use event it first opens the
\* step if none is open and closes the open text or reasoning block, so it
\* emits nothing and changes no field exactly when a step is open and no
\* block is open.
C27_PendingToolUse ==
    [][ FedPendingToolUse =>
        /\ FedOut = OpenAndClose(handler)
        /\ handler'.pending_tool_ids = handler.pending_tool_ids
        /\ handler'.started /\ handler'.in_step
        /\ ~handler'.in_text /\ ~handler'.in_reasoning
        /\ handler'.text_id = NoId /\ handler'.reasoning_id = NoId
        /\ (handler.in_step /\ ~handler.in_text /\ ~handler.in_reasoning) =>
               (FedOut = <<>> /\ SameFields(handler', handler))
      ]_vars

\* A tool use event for a pending id arrived while a text block was open and
\* emitted its text-end.
C27_Witness ==
    \E i \in 1..Len(log) :
        /\ ToolUseAt(i, "t1")
        /\ ~RunStart(i, "t1")
        /\ Len(log[i].out) = 1
        /\ log[i].out[1].type = "text-end"

\* C27 as stated: a current_tool_use event whose tool id is already pending
\* emits no frame of any type and leaves every state field unchanged,
\* whatever block is open when it arrives.
C27_NoOp_Stated ==
    [][ FedPendingToolUse => (FedOut = <<>> /\ SameFields(handler', handler)) ]_vars

\* Event kw takes the complete branch or the result branch of __call__.
IsCompletion(kw) ==
    /\ ~IsLifecycle(kw) /\ ~IsReasoningDelta(kw) /\ ~IsTextDelta(kw) /\ ~IsToolUse(kw)
    /\ ~kw.tool_stream_event.has /\ ~kw.tool_result.has
    /\ kw.complete \/ kw.result.has

\* The end frame of the block open in state st, then finish-step if a step
\* is open in st.
ClosingFrames(st) ==
    (IF st.in_reasoning THEN << emit_reasoning_end(st.reasoning_id) >> ELSE <<>>)
    \o (IF st.in_text THEN << emit_text_end(st.text_id) >> ELSE <<>>)
    \o (IF st.in_step THEN << emit_finish_step >> ELSE <<>>)

StatedResultFrame(tr) ==
    LET tool_id == IF tr.toolUseId = Absent THEN "unknown" ELSE tr.toolUseId
    IN  IF tr.status = "error"
        THEN emit_tool_output_error(tool_id,
                 IF tr.content # <<>> /\ tr.content[1].hasText
                 THEN tr.content[1].text
                 ELSE "Tool execution failed")
        ELSE emit_tool_output_available(tool_id,
                 [single |-> Len(tr.content) = 1, items |-> tr.content])

\* C29: each tool_result event makes the handler emit exactly one frame:
\* tool-output-error with the first content item's text (or the default
\* text) when status is "error", otherwise tool-output-available with the
\* single content item or the whole content list.
C29_ToolResultFrame ==
    \A i \in 1..Len(log) :
        (IsToolResultEvent(log[i].ev) /\ log[i].ev.tool_result.mapping) =>
            log[i].out = << StatedResultFrame(log[i].ev.tool_result) >>

\* Frames s and a are a tool-input-start and a tool-input-available for the
\* same toolCallId and toolName.
IsInputPair(s, a) ==
    /\ s.type = "tool-input-start" /\ a.type = "tool-input-available"
    /\ s.tool = a.tool /\ s.name = a.name

GrowingInputs == << "{\"a\"", "{\"a\": 1", "{\"a\": 1}" >>

\* The events fed to the handler in InputSpec: the current_tool_use events
\* of one tool call with its input at each stage, the tool's outputs and a
\* text delta.
InputEvents ==
    { EvToolUse("t1", "x", GrowingInputs[n], TRUE) : n \in 1..Len(GrowingInputs) }
    \cup { EvToolStream("t1", <<TextItem("chunk")>>),
           EvToolResult("t1", "success", <<TextItem("ok")>>),
           EvData("Hi") }

InputNext == \E kw \in InputEvents : Feed(kw)

InputSpec == Init /\ [][InputNext]_vars

\* Event number j is the last current_tool_use for t of the run of events
\* that starts at i and ends before the output event number k.
LastUseBefore(i, j, k, t) ==
    /\ i <= j /\ j < k
    /\ ToolUseAt(j, t)
    /\ \A m \in (j + 1)..(k - 1) : ~ToolUseAt(m, t)

\* The stage of the accumulated input a current_tool_use event carries.
InputStage(kw) ==
    CHOOSE n \in 1..Len(GrowingInputs) : GrowingInputs[n] = kw.current_tool_use.input

\* The current_tool_use events for t among events i..k-1 carry an input that
\* only grows.
Growing(i, k, t) ==
    \A p \in i..(k - 1) : \A q \in p..(k - 1) :
        (ToolUseAt(p, t) /\ ToolUseAt(q, t)) =>
            InputStage(log[p].ev) <= InputStage(log[q].ev)

\* C31: when several current_tool_use events for one id arrive with a
\* growing input and then the tool's output, the input of the
\* tool-input-available frame of that tool call is the input of the last of
\* those events.
C31_CompleteInput ==
    \A t \in ToolIds : \A i \in 1..Len(log) : \A k \in (i + 1)..Len(log) :
        ( /\ ToolUseAt(i, t) /\ RunStart(i, t)
          /\ ToolOutputAt(k, t) /\ NoOutputBetween(i, k, t)
          /\ Growing(i, k, t) ) =>
            \A j \in i..(k - 1) :
                LastUseBefore(i, j, k, t) =>
                    \A f \in 1..Len(FramesOf(i, k)) :
                        FramesOf(i, k)[f].type = "tool-input-available" =>
                            FramesOf(i, k)[f].val = ParseToolInput(log[j].ev.current_tool_use)

\* ------------------------------------------------------------------------
\* Properties of the frame order
\* ------------------------------------------------------------------------

\* C32: in everything one handler has emitted, start is the first frame and
\* start-step the second, whatever event arrived first: no content, tool,
\* finish-step, finish or done frame precedes them.
C32_StartFirst ==
    LET F == Frames
    IN  /\ Len(F) >= 1 => F[1].type = "start"
        /\ Len(F) >= 2 => F[2].type = "start-step"

\* C33: every event whose complete flag is truthy makes the handler emit
\* the terminal sequence, whatever other keys the event carries: the frames
\* of the call end with finish and done.
C33_CompleteTerminates ==
    \A i \in 1..Len(log) :
        log[i].ev.complete =>
            LET out == log[i].out
            IN  /\ Len(out) >= 2
                /\ out[Len(out) - 1].type = "finish"
                /\ out[Len(out)].type = "done"

\* ------------------------------------------------------------------------
\* DockerSpec: the Docker server's /chat and /chat/stream under every
\* interleaving
\* ------------------------------------------------------------------------

\* Callback events one agent run may send before it returns.
MaxDockerEvents == 1

\* The events the agent runtime sends to its callback handler during a run.
DockerEvents ==
    { EvReasoning("thinking"), EvData("Hi"), EvToolUse("t1", "x", "{}", FALSE) }

\* One dict put on the callback's queue.  run names the request whose agent
\* run sent the event; it is not part of the dict.
QueueItem(type, content, tool, input, run) ==
    [type |-> type, content |-> content, tool |-> tool, input |-> input, run |-> run]

\* StreamCallbackHandler.__call__: the four tests are made one after the
\* other, none returns.
StreamCallback(cb, kw, run) ==
    LET Put(c, type, content) ==
            [c EXCEPT !.queue = put_nowait(@, QueueItem(type, content, "", "", run))]
        c1 == IF kw.reasoningText # ""
              THEN LET c1a == IF ~cb.in_reasoning
                              THEN [Put(cb, "reasoning_start", "") EXCEPT !.in_reasoning = TRUE]
                              ELSE cb
                   IN  Put(c1a, "reasoning", kw.reasoningText)
              ELSE cb
        c2 == IF kw.data # ""
              THEN LET c2a == IF c1.in_reasoning
                              THEN [Put(c1, "reasoning_end", "") EXCEPT !.in_reasoning = FALSE]
                              ELSE c1
                   IN  Put(c2a, "content", kw.data)
              ELSE c1
        tu == kw.current_tool_use
        c3 == IF tu.name # ""
              THEN [c2 EXCEPT !.queue =
                       put_nowait(@, QueueItem("tool_use", "", tu.name,
                                               IF tu.input = Absent THEN "{}" ELSE tu.input,
                                               run))]
              ELSE c2
    IN  IF kw.complete
        THEN LET c4 == IF c3.in_reasoning
                       THEN [Put(c3, "reasoning_end", "") EXCEPT !.in_reasoning = FALSE]
                       ELSE c3
             IN  Put(c4, "done", "")
        ELSE c3

\* get_or_create_agent: the agent of the session is built on the first call
\* for the session only, with that call's callback_handler.
get_or_create_agent(ags, session_id, callback_handler, r) ==
    IF ags[session_id] = NoSessionAgent
    THEN [ags EXCEPT ![session_id] = [by |-> r, callback |-> callback_handler]]
    ELSE ags

\* The agent run of request r sends event kw to callback handler o, the one
\* its agent was built with: the callbacks and the histories after the call
\* (a received event is kept with the run that sent it), and the request
\* whose pending queue.get() the put wakes.
Emitted(r, o, kw) ==
    LET hist == [docker_hist EXCEPT ![r].events = Append(@, kw)]
    IN  IF o = PassCallback
        THEN [cbs |-> callbacks, hist |-> hist, wake |-> {}]
        ELSE LET cb == StreamCallback(callbacks[o], kw, r)
             IN  [cbs |-> [callbacks EXCEPT ![o] = cb],
                  hist |-> [hist EXCEPT ![o].received = Append(@, [run |-> r, ev |-> kw])],
                  wake |-> IF cb.queue # callbacks[o].queue /\ docker_req[o].pc = "waiting"
                           THEN {o} ELSE {}]

\* The requests after request r became req and the getters in wake were woken.
Requested(r, req, wake) ==
    [q \in DockerRequests |->
        LET now == IF q = r THEN req ELSE docker_req[q]
        IN  IF q \in wake THEN [now EXCEPT !.woken = TRUE] ELSE now]

nonDockerVars ==
    <<handlerVars, streamVars, persistVars, mcpVars, voiceVars, memVars, a2aVars,
      builderVars>>

Arrives(r) ==
    /\ docker_req[r].kind = "none"
    /\ \A p \in DockerRequests : p < r => docker_req[p].kind # "none"

\* POST /chat: the agent of the session runs inside the handler, on the event
\* loop's thread, and the handler returns its result.
DockerChat(r, session_id, kw) ==
    /\ Arrives(r)
    /\ LET ags == get_or_create_agent(agents, session_id, PassCallback, r)
           e == Emitted(r, ags[session_id].callback, kw)
       IN  /\ agents' = ags
           /\ callbacks' = e.cbs
           /\ docker_hist' = e.hist
           /\ docker_req' =
                  Requested(r, [kind |-> "chat", session |-> session_id,
                                agent |-> ags[session_id], pc |-> "ended",
                                woken |-> FALSE, worker |-> "returned",
                                task_done |-> TRUE], e.wake)
    /\ UNCHANGED nonDockerVars

\* POST /chat/stream up to `return StreamingResponse(...)`: a new
\* StreamCallbackHandler and the agent from get_or_create_agent.
DockerStream(r, session_id) ==
    /\ Arrives(r)
    /\ LET ags == get_or_create_agent(agents, session_id, r, r)
       IN  /\ agents' = ags
           /\ docker_req' =
                  [docker_req EXCEPT ![r] =
                      [kind |-> "stream", session |-> session_id,
                       agent |-> ags[session_id], pc |-> "created", woken |-> FALSE,
                       worker |-> "none", task_done |-> FALSE]]
    /\ callbacks' = [callbacks EXCEPT ![r] = NewStreamCallback]
    /\ UNCHANGED docker_hist
    /\ UNCHANGED nonDockerVars

\* generate() starts: run_in_executor submits agent(message) to a thread.
DockerGenerate(r) ==
    /\ docker_req[r].pc = "created"
    /\ docker_req' = [docker_req EXCEPT ![r].pc = "loop", ![r].worker = "running"]
    /\ UNCHANGED <<agents, callbacks, docker_hist>>
    /\ UNCHANGED nonDockerVars

\* One callback event of the run of request r, sent from its worker thread.
DockerWorkerEvent(r, kw) ==
    /\ docker_req[r].worker = "running"
    /\ Len(docker_hist[r].events) < MaxDockerEvents
    /\ LET e == Emitted(r, docker_req[r].agent.callback, kw)
       IN  /\ callbacks' = e.cbs
           /\ docker_hist' = e.hist
           /\ docker_req' = Requested(r, docker_req[r], e.wake)
    /\ UNCHANGED agents
    /\ UNCHANGED nonDockerVars

\* agent(message) returns; complete = the run's last callback event carries
\* complete=True.
DockerWorkerReturn(r, complete) ==
    /\ docker_req[r].worker = "running"
    /\ LET req == [docker_req[r] EXCEPT !.worker = "returned"]
       IN  IF complete
           THEN LET e == Emitted(r, docker_req[r].agent.callback, EvComplete)
                IN  /\ callbacks' = e.cbs
                    /\ docker_hist' = e.hist
                    /\ docker_req' = Requested(r, req, e.wake)
           ELSE /\ docker_req' = Requested(r, req, {})
                /\ UNCHANGED <<callbacks, docker_hist>>
    /\ UNCHANGED agents
    /\ UNCHANGED nonDockerVars

\* The event loop runs the executor future's done callback.
DockerTaskDone(r) ==
    /\ docker_req[r].kind = "stream"
    /\ docker_req[r].worker = "returned"
    /\ ~docker_req[r].task_done
    /\ docker_req' = [docker_req EXCEPT ![r].task_done = TRUE]
    /\ UNCHANGED <<agents, callbacks, docker_hist>>
    /\ UNCHANGED nonDockerVars

\* `event = await asyncio.wait_for(callback.queue.get(), timeout=0.1)` finds
\* an item; it is yielded, and a "done" item ends the loop.
DockerGetItem(r) ==
    /\ docker_req[r].pc = "loop"
    /\ callbacks[r].queue # <<>>
    /\ LET g == QueueGet(callbacks[r].queue)
       IN  /\ callbacks' = [callbacks EXCEPT ![r].queue = g.rest]
           /\ docker_hist' = [docker_hist EXCEPT ![r].delivered = Append(@, g.item)]
           /\ docker_req' = [docker_req EXCEPT ![r].pc =
                                IF g.item.type = "done" THEN "ended" ELSE "loop"]
    /\ UNCHANGED agents
    /\ UNCHANGED nonDockerVars

\* queue.get() finds the queue empty (`while self.empty():`) and is about to
\* register its getter.  asyncio.Queue is not thread-safe: the worker thread
\* can put between this test and the registration.
DockerGetEmpty(r) ==
    /\ docker_req[r].pc = "loop"
    /\ callbacks[r].queue = <<>>
    /\ docker_req' = [docker_req EXCEPT ![r].pc = "registering"]
    /\ UNCHANGED <<agents, callbacks, docker_hist>>
    /\ UNCHANGED nonDockerVars

\* queue.get() appends its getter to the queue's getters and awaits it.
DockerGetWait(r) ==
    /\ docker_req[r].pc = "registering"
    /\ docker_req' = [docker_req EXCEPT ![r].pc = "waiting", ![r].woken = FALSE]
    /\ UNCHANGED <<agents, callbacks, docker_hist>>
    /\ UNCHANGED nonDockerVars

\* A put has set the getter's result: queue.get() tests the queue again.
DockerGetWake(r) ==
    /\ docker_req[r].pc = "waiting"
    /\ docker_req[r].woken
    /\ docker_req' = [docker_req EXCEPT ![r].pc = "loop", ![r].woken = FALSE]
    /\ UNCHANGED <<agents, callbacks, docker_hist>>
    /\ UNCHANGED nonDockerVars

\* No put woke the getter within 0.1 s: asyncio.TimeoutError.  The loop is
\* left when task.done() holds and goes round otherwise.
DockerGetTimeout(r) ==
    /\ docker_req[r].pc = "waiting"
    /\ ~docker_req[r].woken
    /\ docker_req' = [docker_req EXCEPT ![r].pc =
                         IF docker_req[r].task_done THEN "ended" ELSE "loop"]
    /\ UNCHANGED <<agents, callbacks, docker_hist>>
    /\ UNCHANGED nonDockerVars

\* DELETE /session/{session_id}
clear_session(session_id) ==
    /\ agents[session_id] # NoSessionAgent
    /\ agents' = [agents EXCEPT ![session_id] = NoSessionAgent]
    /\ UNCHANGED <<docker_req, callbacks, docker_hist>>
    /\ UNCHANGED nonDockerVars

DockerNext ==
    \/ \E r \in DockerRequests :
        \/ \E s \in DockerSessions : \E kw \in DockerEvents : DockerChat(r, s, kw)
        \/ \E s \in DockerSessions : DockerStream(r, s)
        \/ DockerGenerate(r)
        \/ \E kw \in DockerEvents : DockerWorkerEvent(r, kw)
        \/ \E complete \in BOOLEAN : DockerWorkerReturn(r, complete)
        \/ DockerTaskDone(r)
        \/ DockerGetItem(r)
        \/ DockerGetEmpty(r)
        \/ DockerGetWait(r)
        \/ DockerGetWake(r)
        \/ DockerGetTimeout(r)
    \/ \E s \in DockerSessions : clear_session(s)

DockerSpec == Init /\ [][DockerNext]_vars

\* C34: every /chat/stream request receives the events of the agent run it
\* started: the events the agent sends during the request's run are the
\* events the StreamCallbackHandler created for the request is called with.
C34_OwnCallback ==
    \A r \in DockerRequests :
        docker_req[r].kind = "stream" =>
            LET own == SelectSeq(docker_hist[r].received, LAMBDA x : x.run = r)
            IN  [i \in 1..Len(own) |-> own[i].ev] = docker_hist[r].events

\* C35: when the stream of a /chat/stream request has ended, its worker can
\* enqueue no further event and no item that its run put on its callback's
\* queue is still in the queue: every one has been yielded to the client.
C35_AllDelivered ==
    \A r \in DockerRequests :
        (docker_req[r].kind = "stream" /\ docker_req[r].pc = "ended") =>
            /\ docker_req[r].worker # "running"
            /\ \A i \in 1..Len(callbacks[r].queue) : callbacks[r].queue[i].run # r

\* ------------------------------------------------------------------------
\* EquivSpec: AISDKCallbackHandler and ReasoningA2AExecutor fed the same
\* events
\* ------------------------------------------------------------------------

\* `"data" in event` and the like: an event of the model carries a key
\* exactly when the key's value is not empty.
HasKey(kw, key) ==
    CASE key = "data" -> kw.data # ""
      [] key = "reasoningText" -> kw.reasoningText # ""
      [] key = "current_tool_use" -> kw.current_tool_use.has
      [] key = "tool_result" -> kw.tool_result.has
      [] key = "result" -> kw.result.has

\* updater.update_status(TaskState.working, new_agent_text_message(frame)):
\* the frame is appended to what the executor has sent.
update_status(c, f) == Ctx(c.st, Append(c.out, f))

\* The "data" branch, lines 124-144.
ExecData(c, kw) ==
    IF kw.data = "" THEN c
    ELSE LET c1 == IF c.st._reasoning_id # NoId
                   THEN Ctx([c.st EXCEPT !._reasoning_id = NoId],
                            Append(c.out, emit_reasoning_end(c.st._reasoning_id)))
                   ELSE c
             c2 == IF c1.st._text_id = NoId
                   THEN LET id == NewId(c1.st, "t-")
                        IN  Ctx([Drawn(c1).st EXCEPT !._text_id = id],
                                Append(c1.out, emit_text_start(id)))
                   ELSE c1
         IN  update_status(c2, emit_text_delta(c2.st._text_id, kw.data))

\* The "reasoningText" branch, lines 146-166.
ExecReasoning(c, kw) ==
    IF kw.reasoningText = "" THEN c
    ELSE LET c1 == IF c.st._text_id # NoId
                   THEN Ctx([c.st EXCEPT !._text_id = NoId],
                            Append(c.out, emit_text_end(c.st._text_id)))
                   ELSE c
             c2 == IF c1.st._reasoning_id = NoId
                   THEN LET id == NewId(c1.st, "r-")
                        IN  Ctx([Drawn(c1).st EXCEPT !._reasoning_id = id],
                                Append(c1.out, emit_reasoning_start(id)))
                   ELSE c1
         IN  update_status(c2, emit_reasoning_delta(c2.st._reasoning_id, kw.reasoningText))

\* The "current_tool_use" branch, lines 168-190: no open block is closed.
ExecToolUse(c, kw) ==
    LET tu == kw.current_tool_use
    IN  IF tu.name = "" THEN c
        ELSE LET gen == NewId(c.st, "tool-")
                 c1 == Drawn(c)
                 tool_id == IF tu.toolUseId = Absent THEN gen ELSE tu.toolUseId
                 tool_input == ParseToolInput(tu)
             IN  IF tool_id \notin c1.st._pending_tools
                 THEN Ctx([c1.st EXCEPT !._pending_tools = @ \cup {tool_id}],
                          c1.out \o << emit_tool_input_start(tool_id, tu.name),
                                       emit_tool_input_available(tool_id, tu.name,
                                                                 tool_input) >>)
                 ELSE c1

\* The "tool_result" branch, lines 192-210.
ExecToolResult(c, kw) ==
    LET tr == kw.tool_result
        tool_id == IF tr.toolUseId = Absent THEN "unknown" ELSE tr.toolUseId
        status == IF tr.status = Absent THEN "success" ELSE tr.status
        f == IF status = "error"
             THEN emit_tool_output_error(tool_id,
                      IF tr.content # <<>> /\ tr.content[1].hasText
                      THEN tr.content[1].text
                      ELSE "Tool execution failed")
             ELSE emit_tool_output_available(tool_id,
                      [single |-> Len(tr.content) = 1, items |-> tr.content])
    IN  Ctx([c.st EXCEPT !._pending_tools = @ \ {tool_id}], Append(c.out, f))

\* The "result" branch, lines 212-227: the open blocks are closed, text
\* first; _handle_agent_result of the base class then completes the task.
ExecResult(c) ==
    LET c1 == IF c.st._text_id # NoId
              THEN Ctx([c.st EXCEPT !._text_id = NoId],
                       Append(c.out, emit_text_end(c.st._text_id)))
              ELSE c
    IN  IF c1.st._reasoning_id # NoId
        THEN Ctx([c1.st EXCEPT !._reasoning_id = NoId],
                 Append(c1.out, emit_reasoning_end(c1.st._reasoning_id)))
        ELSE c1

\* ReasoningA2AExecutor._handle_streaming_event: the first key the event
\* carries, in the order of the if/elif chain, selects the branch.
_handle_streaming_event(st, kw) ==
    LET c == Ctx(st, <<>>)
    IN  IF HasKey(kw, "data") THEN ExecData(c, kw)
        ELSE IF HasKey(kw, "reasoningText") THEN ExecReasoning(c, kw)
        ELSE IF HasKey(kw, "current_tool_use") THEN ExecToolUse(c, kw)
        ELSE IF HasKey(kw, "tool_result") THEN ExecToolResult(c, kw)
        ELSE IF HasKey(kw, "result") THEN ExecResult(c)
        ELSE c

\* The content events fed to both translators: text, reasoning with the
\* reasoning flag, current_tool_use and tool_result, and a final result.
ContentEvents ==
    { EvData("Hi"),
      EvReasoning("thinking"),
      EvToolUse("t1", "x", "{}", FALSE),
      EvToolUse("t1", "x", "{\"a\"", TRUE),
      EvToolResult("t1", "success", <<TextItem("ok")>>),
      EvToolResult("t1", "error", <<TextItem("boom")>>),
      EvResult("end_turn") }

\* One event of the agent's stream is given to a handler and to an executor.
FeedBoth(kw) ==
    /\ Len(log) < MaxEvents
    /\ LET c == Call(handler, kw)
           e == _handle_streaming_event(executor, kw)
       IN  /\ handler' = c.st
           /\ log' = Append(log, [ev |-> kw, out |-> c.out])
           /\ executor' = e.st
           /\ updates' = updates \o e.out
    /\ UNCHANGED <<streamVars, persistVars, mcpVars, voiceVars, memVars, dockerVars,
                   builderVars>>

EquivNext == \E kw \in ContentEvents : FeedBoth(kw)

EquivSpec == Init /\ [][EquivNext]_vars

\* The types of the text, reasoning and tool frames of a frame sequence.
RECURSIVE ContentTypes(_)
ContentTypes(fs) ==
    IF fs = <<>> THEN <<>>
    ELSE IF Head(fs).type \in
              {"text-start", "text-delta", "text-end",
               "reasoning-start", "reasoning-delta", "reasoning-end",
               "tool-input-start", "tool-input-available",
               "tool-output-available", "tool-output-error"}
         THEN <<Head(fs).type>> \o ContentTypes(Tail(fs))
         ELSE ContentTypes(Tail(fs))

\* The log holds content events only: no result event has been fed.
OnlyContent == \A i \in 1..Len(log) : ~log[i].ev.result.has

\* C36: fed the same sequence of text, reasoning, current_tool_use and
\* tool_result events, the executor and the handler emit the same sequence
\* of text, reasoning and tool frame types.
C36_SameContentFrames ==
    OnlyContent => ContentTypes(updates) = ContentTypes(Frames)

\* ------------------------------------------------------------------------
\* BuilderSpec: one AISDKStreamBuilder fed a sequence of events through
\* strands_event_to_aisdk
\* ------------------------------------------------------------------------

\* Events fed to the builder so far are at most this many.
MaxBuilderEvents == 4

\* AISDKStreamBuilder's default text_id and reasoning_id, and the tool id
\* used when current_tool_use carries neither toolUseId nor id.
DefaultTextId == "text_001"
DefaultReasoningId == "reasoning_001"
DefaultToolId == "tool_001"

\* event["delta"]: kind is "none" when the key is missing, "text" for
\* {"text": ...}, "input" for {"input": ...}; value is the text or the input
\* fragment.
NoDelta == [kind |-> "none", value |-> ""]

\* One event given to strands_event_to_aisdk: the keys of kw, the delta key,
\* the top-level toolUseId key (Absent when missing), whether the result has
\* a structured_output, and the tool_results of the result's message.
BuilderEvent(kw, delta, toolUseId, structured_output, tool_results) ==
    [kw |-> kw, delta |-> delta, toolUseId |-> toolUseId,
     structured_output |-> structured_output, tool_results |-> tool_results]

PlainEvent(kw) == BuilderEvent(kw, NoDelta, Absent, FALSE, <<>>)

\* json.dumps of a string that holds no quote and no backslash.
json_dumps_str(s) == "\"" \o s \o "\""

\* AISDKStreamBuilder.text_start with text_id=None
text_start(c) ==
    Ctx([c.st EXCEPT !._text_started = TRUE], Append(c.out, emit_text_start(DefaultTextId)))

\* AISDKStreamBuilder.text_delta: starts the text block when none is started.
text_delta(c, delta) ==
    LET c1 == IF ~c.st._text_started THEN text_start(c) ELSE c
    IN  Ctx(c1.st, Append(c1.out, emit_text_delta(DefaultTextId, delta)))

\* AISDKStreamBuilder.reasoning_start with reasoning_id=None
reasoning_start(c) ==
    Ctx([c.st EXCEPT !._reasoning_started = TRUE],
        Append(c.out, emit_reasoning_start(DefaultReasoningId)))

\* AISDKStreamBuilder.reasoning_delta
reasoning_delta(c, delta) ==
    LET c1 == IF ~c.st._reasoning_started THEN reasoning_start(c) ELSE c
    IN  Ctx(c1.st, Append(c1.out, emit_reasoning_delta(DefaultReasoningId, delta)))

\* AISDKStreamBuilder.tool_input_start
tool_input_start(c, tool_call_id, tool_name) ==
    LET entry == [name |-> tool_name, input |-> ""]
        others == [t \in DOMAIN c.st._tool_calls \ {tool_call_id} |-> c.st._tool_calls[t]]
    IN  Ctx([c.st EXCEPT !._tool_calls = (tool_call_id :> entry) @@ others],
            Append(c.out, emit_tool_input_start(tool_call_id, tool_name)))

\* AISDKStreamBuilder.tool_input_delta
tool_input_delta(c, tool_call_id, input_delta) ==
    LET st == IF tool_call_id \in DOMAIN c.st._tool_calls
              THEN [c.st EXCEPT !._tool_calls[tool_call_id].input = @ \o input_delta]
              ELSE c.st
    IN  Ctx(st, Append(c.out, Frame("tool-input-delta", NoId, tool_call_id, "",
                                    input_delta, NoOut)))

\* AISDKStreamBuilder.tool_input_available
tool_input_available(c, tool_call_id, tool_name, tool_input) ==
    Ctx(c.st, Append(c.out, emit_tool_input_available(tool_call_id, tool_name, tool_input)))

\* AISDKStreamBuilder.tool_output_available: the frame carries the error when
\* there is one and the output otherwise.
tool_output_available(c, tr) ==
    Ctx(c.st, Append(c.out,
        IF tr.error # ""
        THEN Frame("tool-output-available", NoId, tr.toolUseId, "", tr.error, NoOut)
        ELSE emit_tool_output_available(tr.toolUseId, tr.output)))

\* AISDKStreamBuilder.data("structured_output", ...)
data_structured_output(c) ==
    Ctx(c.st, Append(c.out, Frame("data-structured_output", NoId, "", "", "", NoOut)))

\* The loop over message["tool_results"], lines 273-278.
RECURSIVE ToolResults(_, _)
ToolResults(c, trs) ==
    IF trs = <<>> THEN c ELSE ToolResults(tool_output_available(c, Head(trs)), Tail(trs))

\* tool_use.get("input") is truthy: a non-empty dict or string.
InputTruthy(tu) == tu.input \notin {Absent, "", "{}"}

\* strands_event_to_aisdk, consumed to its end: the five tests are made one
\* after the other, each on the builder the previous one left.
strands_event_to_aisdk(event, st) ==
    LET kw == event.kw
        c0 == Ctx(st, <<>>)
        c1 == IF kw.data # "" THEN text_delta(c0, kw.data) ELSE c0
        c2 == IF event.delta.kind = "text" THEN text_delta(c1, event.delta.value)
              ELSE IF event.delta.kind = "input" /\ event.toolUseId # Absent
                   THEN tool_input_delta(c1, event.toolUseId,
                                         json_dumps_str(event.delta.value))
                   ELSE c1
        c3 == IF kw.reasoningText # "" THEN reasoning_delta(c2, kw.reasoningText) ELSE c2
        tu == kw.current_tool_use
        tool_id == IF tu.toolUseId = Absent THEN DefaultToolId ELSE tu.toolUseId
        c4 == IF tu.has /\ tu.mapping /\ tu.name # ""
              THEN IF InputTruthy(tu)
                   THEN tool_input_available(c3, tool_id, tu.name, tu.input)
                   ELSE tool_input_start(c3, tool_id, tu.name)
              ELSE c3
    IN  IF kw.result.has
        THEN ToolResults(IF event.structured_output THEN data_structured_output(c4) ELSE c4,
                         event.tool_results)
        ELSE c4

\* The events fed to the builder: a text event as the runtime sends it (data
\* and the text delta together), data alone, reasoning, a tool use before
\* and after its input is known, an input delta, and final results.
BuilderEvents ==
    { BuilderEvent(EvData("Hi"), [kind |-> "text", value |-> "Hi"], Absent, FALSE, <<>>),
      PlainEvent(EvData("Hi")),
      PlainEvent(EvReasoning("thinking")),
      PlainEvent(EvToolUse("t1", "x", "{}", FALSE)),
      PlainEvent(EvToolUse("t1", "x", "{\"a\": 1}", FALSE)),
      BuilderEvent(NoEvent, [kind |-> "input", value |-> "42"], "t1", FALSE, <<>>),
      PlainEvent(EvResult("end_turn")),
      BuilderEvent(EvResult("tool_use"), NoDelta, Absent, TRUE,
                   << [toolUseId |-> "t1", output |-> [single |-> TRUE,
                                                       items |-> <<TextItem("ok")>>],
                       error |-> ""],
                      [toolUseId |-> "t1", output |-> NoOut, error |-> "boom"] >>) }

\* for sse in strands_event_to_aisdk(event, builder): the caller takes every
\* string the generator yields.
FeedBuilder(event) ==
    /\ Len(yielded) < MaxBuilderEvents
    /\ LET c == strands_event_to_aisdk(event, builder)
       IN  /\ builder' = c.st
           /\ yielded' = Append(yielded, [ev |-> event, out |-> c.out])
    /\ UNCHANGED <<handlerVars, streamVars, persistVars, mcpVars, voiceVars, memVars,
                   dockerVars, a2aVars>>

BuilderNext == \E event \in BuilderEvents : FeedBuilder(event)

BuilderSpec == Init /\ [][BuilderNext]_vars

\* Frame number k of fs lies inside a text block: a text-start precedes it
\* with no text-end in between.
InTextBlock(fs, k) ==
    \E i \in 1..(k - 1) :
        /\ fs[i].type = "text-start"
        /\ \A j \in (i + 1)..(k - 1) : fs[j].type # "text-end"

\* C37: with one builder, a text block and a reasoning block are never open
\* at the same time: _text_started and _reasoning_started are never both
\* true, and no reasoning-start is emitted inside a text block.
C37_OneBlockOpen ==
    LET F == FlattenLog(yielded)
    IN  /\ ~(builder._text_started /\ builder._reasoning_started)
        /\ \A k \in 1..Len(F) : F[k].type = "reasoning-start" => ~InTextBlock(F, k)
====
